---- MODULE Spec2Model ----
(***************************************************************************)
(* A model of gotgz's archive engine (internal/engine), its object-store   *)
(* writer (internal/storage/s3) and the path functions they rest on.       *)
(*                                                                         *)
(* Strings are sequences of one-character strings, so that the functions   *)
(* that scan, split, clean and match names are computed character by       *)
(* character, as the Go code computes them.                                *)
(***************************************************************************)
EXTENDS Integers, Sequences, FiniteSets, TLC

VARIABLES
    call,       \* the arguments of the pure function under test
    ret,        \* its result, NoRet before the call
    opts,       \* cli.Options of the run, with the process's umask and euid
    archive,    \* the tar stream being read: a sequence of headers with bodies
    pos,        \* the index of the next header tr.Next() returns
    fs,         \* the filesystem
    stdout,     \* the lines and bodies written to r.stdout
    warnings,   \* scanArchive's warning count
    result,     \* the RunResult, NoResult until Run returns
    pc,         \* where Run is: "idle", "create", "created", "call", "scan",
                \* "returned", and the positions of runCreate listed at SpecUpload
    done,       \* per header read so far, what was done with it
    up,         \* the object-store writer of a Create: pipe, upload task, errCh
    objects,    \* the object store: key -> [data, meta]
    stderr,     \* the diagnostics written to standard error, in order
    ctx,        \* the context of the run: "live", or "done" once cancelled
    cr          \* runCreate in steps: its walk, its error, its writers and their log

vars == <<call, ret, opts, archive, pos, fs, stdout, warnings, result, pc, done, up, objects, stderr, ctx, cr>>
fnVars == <<call, ret>>
runVars == <<opts, archive, pos, fs, stdout, warnings, result, pc, done>>

\* ------------------------------------------------------------------ bounds

\* The longest name (in characters) drawn for the pure path functions.
MaxNameLen == 5
\* The largest strip-components count drawn.
MaxStrip == 3
\* The longest archive (in entries) drawn for a run.
MaxEntries == 2
\* The largest strip-components count drawn for a run.
MaxRunStrip == 1
\* The longest member pattern drawn.
MaxPatLen == 3
\* The longest entry name drawn for the member filter.
MaxMemberNameLen == 5
\* The most members a Create to the object store writes.
MaxChunks == 2
\* The largest number of warnings an operation returns.
MaxWarnings == 3

\* ----------------------------------------------------------------- strings

NoRet == [kind |-> "none"]

Slash == "/"
Dot == "."
EmptyStr == << >>
DotStr == <<".">>
DotDot == <<".", ".">>

\* The element of a one-element set. Only({e : x \in {v}}) is e with x naming
\* the value of v, computed once.
Only(S) == CHOOSE x \in S : TRUE

\* All strings over alphabet A of length at most n.
StrsUpTo(A, n) == UNION {[1..k -> A] : k \in 0..n}

\* strings.HasPrefix
HasPrefix(s, p) == Len(s) >= Len(p) /\ SubSeq(s, 1, Len(p)) = p

\* strings.TrimPrefix
TrimPrefix(s, p) == IF HasPrefix(s, p) THEN SubSeq(s, Len(p) + 1, Len(s)) ELSE s

\* The index of the first sep at or after position i of s, Len(s)+1 if none.
RECURSIVE IndexFrom(_, _, _)
IndexFrom(s, sep, i) ==
    IF i > Len(s) THEN Len(s) + 1
    ELSE IF s[i] = sep THEN i
    ELSE IndexFrom(s, sep, i + 1)

\* strings.Split(s, sep) for a one-character sep: always at least one piece.
RECURSIVE Split(_, _)
Split(s, sep) ==
    LET i == IndexFrom(s, sep, 1) IN
    IF i > Len(s) THEN <<s>>
    ELSE <<SubSeq(s, 1, i - 1)>> \o Split(SubSeq(s, i + 1, Len(s)), sep)

\* strings.Join(parts, sep) for a one-character sep.
RECURSIVE JoinStr(_, _)
JoinStr(parts, sep) ==
    IF Len(parts) = 0 THEN EmptyStr
    ELSE IF Len(parts) = 1 THEN parts[1]
    ELSE parts[1] \o <<sep>> \o JoinStr(Tail(parts), sep)

\* The last index of sep in s, 0 if none.
RECURSIVE LastIndex(_, _, _)
LastIndex(s, sep, i) ==
    IF i = 0 THEN 0
    ELSE IF s[i] = sep THEN i
    ELSE LastIndex(s, sep, i - 1)

\* ------------------------------------------------------------------- paths

\* The elements that path.Clean keeps: each element of the path in turn, an empty
\* element and "." dropped, ".." removing the element before it (rule 3),
\* dropped at the root (rule 4), kept at the start of a relative path.
RECURSIVE CleanElems(_, _, _)
CleanElems(elems, out, rooted) ==
    IF Len(elems) = 0 THEN out
    ELSE LET e == Head(elems) IN
         IF e = EmptyStr \/ e = DotStr THEN CleanElems(Tail(elems), out, rooted)
         ELSE IF e = DotDot THEN
              IF Len(out) > 0 /\ out[Len(out)] # DotDot
              THEN CleanElems(Tail(elems), SubSeq(out, 1, Len(out) - 1), rooted)
              ELSE IF rooted THEN CleanElems(Tail(elems), out, rooted)
              ELSE CleanElems(Tail(elems), Append(out, e), rooted)
         ELSE CleanElems(Tail(elems), Append(out, e), rooted)

\* path.Clean / filepath.Clean (unix)
Clean(p) ==
    IF p = EmptyStr THEN DotStr
    ELSE LET rooted == p[1] = Slash
             body == JoinStr(CleanElems(Split(p, Slash), << >>, rooted), Slash)
         IN IF rooted THEN <<Slash>> \o body
            ELSE IF body = EmptyStr THEN DotStr ELSE body

\* filepath.IsAbs (unix)
IsAbs(p) == HasPrefix(p, <<Slash>>)

\* filepath.Join(a, b): empty elements are ignored, the rest joined and cleaned.
Join(a, b) ==
    IF a = EmptyStr /\ b = EmptyStr THEN EmptyStr
    ELSE IF a = EmptyStr THEN Clean(b)
    ELSE IF b = EmptyStr THEN Clean(a)
    ELSE Clean(a \o <<Slash>> \o b)

\* filepath.Dir (unix): the path up to its last slash, cleaned.
Dir(p) == Clean(SubSeq(p, 1, LastIndex(p, Slash, Len(p))))

\* The elements of a cleaned path ("." and "/" have none).
Elems(p) ==
    LET q == IF p = DotStr THEN EmptyStr ELSE TrimPrefix(p, <<Slash>>) IN
    IF q = EmptyStr THEN << >> ELSE Split(q, Slash)

\* The length of the longest common prefix of two element lists.
RECURSIVE CommonLen(_, _)
CommonLen(a, b) ==
    IF Len(a) = 0 \/ Len(b) = 0 \/ Head(a) # Head(b) THEN 0
    ELSE 1 + CommonLen(Tail(a), Tail(b))

\* filepath.Rel(basepath, targpath): [ok, path]. An error when only one of the
\* two is rooted, or when base climbs (starts with "..") where target does not.
Rel(basepath, targpath) ==
    LET base == Clean(basepath)
        targ == Clean(targpath)
        be == Elems(base)
        te == Elems(targ)
        n == CommonLen(be, te)
        bRest == SubSeq(be, n + 1, Len(be))
        tRest == SubSeq(te, n + 1, Len(te))
    IN  IF targ = base THEN [ok |-> TRUE, path |-> DotStr]
        ELSE IF IsAbs(base) # IsAbs(targ) THEN [ok |-> FALSE, path |-> EmptyStr]
        ELSE IF Len(bRest) > 0 /\ bRest[1] = DotDot THEN [ok |-> FALSE, path |-> EmptyStr]
        ELSE [ok |-> TRUE,
              path |-> JoinStr([i \in 1..Len(bRest) |-> DotDot] \o tRest, Slash)]

\* -------------------------------------------------------------- filesystem

\* Permission bits are a set of bit names; &^ is set difference.
PermBits == {"ur", "uw", "ux", "gr", "gw", "gx", "or", "ow", "ox"}
Perm600 == {"ur", "uw"}
Perm644 == {"ur", "uw", "gr", "or"}
Perm755 == {"ur", "uw", "ux", "gr", "gx", "or", "ox"}
Perm777 == PermBits
Umask022 == {"gw", "ow"}

\* The filesystem is a function from the physical (absolute, symlink-free) path
\* of each existing file to its node; the root directory always exists.
Root == <<Slash>>
\* The working directory of the process, against which relative paths resolve.
Cwd == <<Slash, "w">>
NoNode == [kind |-> "none"]
DirNode(perm) == [kind |-> "dir", perm |-> perm]
FileNode(perm, data, ino) == [kind |-> "file", perm |-> perm, data |-> data, ino |-> ino]
LinkNode(target) == [kind |-> "symlink", target |-> target]

NodeAt(f, p) ==
    IF p = Root THEN DirNode(Perm755)
    ELSE IF p \in DOMAIN f THEN f[p] ELSE NoNode

\* How many symbolic links one path resolution follows before it fails (ELOOP).
MaxSymlinkHops == 3

\* The kernel's path walk from directory cur over the remaining elements:
\* [ok, path], path the physical path of the last element (which may not
\* exist). A symbolic link met on the way is replaced by its target; the last
\* element is followed only when followLast.
RECURSIVE Walk(_, _, _, _, _)
Walk(f, cur, elems, followLast, hops) ==
    IF Len(elems) = 0 THEN [ok |-> TRUE, path |-> cur]
    ELSE LET e == elems[1]
             rest == Tail(elems)
         IN IF e = EmptyStr \/ e = DotStr THEN Walk(f, cur, rest, followLast, hops)
            ELSE IF e = DotDot THEN Walk(f, Dir(cur), rest, followLast, hops)
            ELSE Only({
                    LET n == NodeAt(f, p)
                        last == \A i \in 1..Len(rest) : rest[i] \in {EmptyStr, DotStr}
                    IN IF n.kind = "symlink" /\ (~last \/ followLast) THEN
                           IF hops = 0 THEN [ok |-> FALSE, path |-> p]
                           ELSE Walk(f, IF IsAbs(n.target) THEN Root ELSE cur,
                                     Split(n.target, Slash) \o rest, followLast, hops - 1)
                       ELSE IF last THEN [ok |-> TRUE, path |-> p]
                       ELSE IF n.kind = "dir" THEN Walk(f, p, rest, followLast, hops)
                       ELSE [ok |-> FALSE, path |-> p]
                  : p \in {Join(cur, e)}})

\* The physical path a path names, final symbolic link followed or not.
Resolve(f, p, followLast) ==
    Only({Walk(f, IF IsAbs(p) THEN Root ELSE Cwd, elems, followLast, MaxSymlinkHops)
          : elems \in {Split(p, Slash)}})

\* A filesystem with node n at physical path p.
Put(f, p, n) == [q \in DOMAIN f \cup {p} |-> IF q = p THEN n ELSE f[q]]

\* A filesystem without the node at p.
Del(f, p) == [q \in DOMAIN f \ {p} |-> f[q]]

\* The inode numbers in use, and a fresh one.
Inodes(f) == {f[q].ino : q \in {q \in DOMAIN f : f[q].kind = "file"}}
FreshIno(f) == IF Inodes(f) = {} THEN 1 ELSE 1 + CHOOSE i \in Inodes(f) : \A j \in Inodes(f) : j <= i

\* Every name of inode ino gets the node n: hard links share content and mode.
PutInode(f, ino, n) ==
    [q \in DOMAIN f |-> IF f[q].kind = "file" /\ f[q].ino = ino THEN n ELSE f[q]]

\* os.Mkdir(p, perm): the parent must exist, the name must be free.
Mkdir(f, p, perm, umask) ==
    Only({
        IF r.ok /\ r.path # Root /\ NodeAt(f, r.path).kind = "none"
        THEN [ok |-> TRUE, fs |-> Put(f, r.path, DirNode(perm \ umask))]
        ELSE [ok |-> FALSE, fs |-> f]
      : r \in {Resolve(f, p, FALSE)}})

\* os.MkdirAll(p, perm): nothing to do for a directory (Stat follows links),
\* an error for any other file; otherwise the parent first and then the
\* directory itself.
\* The node a path names, links followed; NoNode when it names none.
Stat(f, p) ==
    Only({IF r.ok THEN NodeAt(f, r.path) ELSE NoNode : r \in {Resolve(f, p, TRUE)}})

\* The node a path names, a final link not followed.
Lstat(f, p) ==
    Only({IF r.ok THEN NodeAt(f, r.path) ELSE NoNode : r \in {Resolve(f, p, FALSE)}})

RECURSIVE MkdirAll(_, _, _, _)
MkdirAll(f, p, perm, umask) ==
    Only({
        IF n.kind = "dir" THEN [ok |-> TRUE, fs |-> f]
        ELSE IF n.kind # "none" THEN [ok |-> FALSE, fs |-> f]
        ELSE Only({
            IF ~par.ok THEN par
            ELSE Only({
                IF m.ok THEN m
                ELSE [ok |-> Lstat(par.fs, p).kind = "dir", fs |-> par.fs]
              : m \in {Mkdir(par.fs, p, perm, umask)}})
          : par \in {IF i > 1 THEN MkdirAll(f, SubSeq(p, 1, i - 1), perm, umask)
                    ELSE [ok |-> TRUE, fs |-> f]}})
      : n \in {Stat(f, p)}, i \in {LastIndex(p, Slash, Len(p))}})

\* os.OpenFile(p, O_CREATE|O_TRUNC|O_WRONLY, perm), the write of data and the
\* close: an existing file is truncated and keeps its mode, a missing one is
\* created; a final symbolic link is followed.
WriteFile(f, p, perm, umask, data) ==
    Only({
        LET n == IF r.ok THEN NodeAt(f, r.path) ELSE NoNode IN
        IF ~r.ok \/ n.kind \in {"dir", "symlink"} THEN [ok |-> FALSE, fs |-> f]
        ELSE IF n.kind = "file"
        THEN [ok |-> TRUE, fs |-> PutInode(f, n.ino, [n EXCEPT !.data = data])]
        ELSE [ok |-> TRUE, fs |-> Put(f, r.path, FileNode(perm \ umask, data, FreshIno(f)))]
      : r \in {Resolve(f, p, TRUE)}})

\* os.Remove(p): [ok, missing, fs]. The name itself is removed, never what a
\* link points to; a directory only when empty.
Remove(f, p) ==
    Only({
        LET n == IF r.ok THEN NodeAt(f, r.path) ELSE NoNode
            children == {q \in DOMAIN f : q # r.path /\ Dir(q) = r.path}
        IN  IF n.kind = "none" THEN [ok |-> FALSE, missing |-> TRUE, fs |-> f]
            ELSE IF r.path = Root \/ (n.kind = "dir" /\ children # {})
            THEN [ok |-> FALSE, missing |-> FALSE, fs |-> f]
            ELSE [ok |-> TRUE, missing |-> FALSE, fs |-> Del(f, r.path)]
      : r \in {Resolve(f, p, FALSE)}})

\* os.Symlink(target, p): the name must be free and its parent exist.
Symlink(f, target, p) ==
    Only({
        IF r.ok /\ r.path # Root /\ NodeAt(f, r.path).kind = "none"
        THEN [ok |-> TRUE, fs |-> Put(f, r.path, LinkNode(target))]
        ELSE [ok |-> FALSE, fs |-> f]
      : r \in {Resolve(f, p, FALSE)}})

\* os.Link(old, new): new becomes another name of old's inode. Neither final
\* element is followed; old must be a file here (a link to a symbolic link is
\* a second name of the link itself).
Link(f, old, new) ==
    Only({
        IF on.kind \in {"file", "symlink"} /\ n.ok /\ n.path # Root
           /\ NodeAt(f, n.path).kind = "none"
        THEN [ok |-> TRUE, fs |-> Put(f, n.path, on)]
        ELSE [ok |-> FALSE, fs |-> f]
      : on \in {Lstat(f, old)}, n \in {Resolve(f, new, FALSE)}})

\* os.Chmod(p, perm): the mode of the file p names, a final symbolic link
\* followed; no effect when the path does not resolve.
Chmod(f, p, perm) ==
    Only({
        LET n == IF r.ok THEN NodeAt(f, r.path) ELSE NoNode IN
        IF n.kind = "file" THEN PutInode(f, n.ino, [n EXCEPT !.perm = perm])
        ELSE IF n.kind = "dir" /\ r.path # Root THEN Put(f, r.path, [n EXCEPT !.perm = perm])
        ELSE f
      : r \in {Resolve(f, p, TRUE)}})

\* ------------------------------------------------------- strip-components

\* The non-empty, non-"." parts of a split name (the loop of stripPathComponents).
RECURSIVE KeepParts(_)
KeepParts(pieces) ==
    IF Len(pieces) = 0 THEN << >>
    ELSE IF Head(pieces) = EmptyStr \/ Head(pieces) = DotStr THEN KeepParts(Tail(pieces))
    ELSE <<Head(pieces)>> \o KeepParts(Tail(pieces))

\* stripPathComponents with the boundary moved: a name of exactly count
\* segments is kept.
stripPathComponentsLt(name, count) ==
    IF count <= 0 THEN [name |-> name, ok |-> TRUE]
    ELSE LET clean == Clean(TrimPrefix(name, <<Slash>>))
             parts == KeepParts(Split(clean, Slash))
         IN IF Len(parts) < count THEN [name |-> EmptyStr, ok |-> FALSE]
            ELSE [name |-> JoinStr(SubSeq(parts, count + 1, Len(parts)), Slash), ok |-> TRUE]

\* stripPathComponents(name, count): [name, ok].
stripPathComponents(name, count) ==
    IF count <= 0 THEN [name |-> name, ok |-> TRUE]
    ELSE LET clean == Clean(TrimPrefix(name, <<Slash>>))
             parts == KeepParts(Split(clean, Slash))
         IN IF Len(parts) <= count THEN [name |-> EmptyStr, ok |-> FALSE]
            ELSE [name |-> JoinStr(SubSeq(parts, count + 1, Len(parts)), Slash), ok |-> TRUE]

\* ---------------------------------------------------------- glob matching

\* scanChunk(pattern): [star, chunk, rest]; the leading stars are dropped and
\* the chunk runs to the next star.
RECURSIVE DropStars(_)
DropStars(pattern) ==
    IF Len(pattern) > 0 /\ pattern[1] = "*" THEN DropStars(Tail(pattern)) ELSE pattern

scanChunk(pattern) ==
    LET p == DropStars(pattern)
        i == IndexFrom(p, "*", 1)
    IN  [star |-> Len(p) < Len(pattern),
         chunk |-> SubSeq(p, 1, i - 1),
         rest |-> SubSeq(p, i, Len(p))]

\* matchChunk(chunk, s): [ok, rest]. Each pattern character takes one character
\* of s: "?" any but a slash, any other character itself.
RECURSIVE matchChunk(_, _)
matchChunk(chunk, s) ==
    IF Len(chunk) = 0 THEN [ok |-> TRUE, rest |-> s]
    ELSE IF Len(s) = 0 THEN [ok |-> FALSE, rest |-> EmptyStr]
    ELSE IF chunk[1] = "?" THEN
         IF s[1] = Slash THEN [ok |-> FALSE, rest |-> EmptyStr]
         ELSE matchChunk(Tail(chunk), Tail(s))
    ELSE IF chunk[1] # s[1] THEN [ok |-> FALSE, rest |-> EmptyStr]
    ELSE matchChunk(Tail(chunk), Tail(s))

\* path.Match(pattern, name), its error dropped as the callers drop it. The
\* chunk is tried at the current position, and after a star at each later
\* position up to the next slash; the first position that matches is taken.
RECURSIVE Match(_, _)
RECURSIVE StarSkip(_, _, _, _)
StarSkip(chunk, rest, name, i) ==
    IF ~(i < Len(name) /\ name[i + 1] # Slash) THEN FALSE
    ELSE LET mc == matchChunk(chunk, SubSeq(name, i + 2, Len(name))) IN
         IF mc.ok /\ ~(Len(rest) = 0 /\ Len(mc.rest) > 0) THEN Match(rest, mc.rest)
         ELSE StarSkip(chunk, rest, name, i + 1)

Match(pattern, name) ==
    IF Len(pattern) = 0 THEN Len(name) = 0
    ELSE LET sc == scanChunk(pattern)
             mc == matchChunk(sc.chunk, name)
         IN IF sc.star /\ sc.chunk = EmptyStr THEN IndexFrom(name, Slash, 1) > Len(name)
            ELSE IF mc.ok /\ (Len(mc.rest) = 0 \/ Len(sc.rest) > 0) THEN Match(sc.rest, mc.rest)
            ELSE IF sc.star THEN StarSkip(sc.chunk, sc.rest, name, 0)
            ELSE FALSE

\* shouldSkipMember comparing for equality whether or not wildcards are on.
shouldSkipMemberExact(o, name) ==
    IF Len(o.members) = 0 THEN FALSE
    ELSE ~ \E i \in 1..Len(o.members) : o.members[i] = name

\* shouldSkipMember(opts, name)
shouldSkipMember(o, name) ==
    IF Len(o.members) = 0 THEN FALSE
    ELSE ~ \E i \in 1..Len(o.members) :
            IF o.wildcards THEN Match(o.members[i], name) ELSE o.members[i] = name

\* matchExclude(patterns, name)
matchExclude(patterns, name) ==
    \E i \in 1..Len(patterns) : Match(patterns[i], name)

\* ------------------------------------------------------------- path safety

\* strings.HasPrefix(rel, "../") || rel == ".."
Escapes(rel) == rel = DotDot \/ HasPrefix(rel, <<Dot, Dot, Slash>>)

\* safeJoin without its test of the relative path.
safeJoinUnchecked(base, member) ==
    LET b == Clean(base)
        m == TrimPrefix(member, <<Slash>>)
        candidate == Clean(Join(b, m))
        rel == Rel(b, candidate)
    IN  IF ~rel.ok THEN [ok |-> FALSE, path |-> EmptyStr, err |-> "rel"]
        ELSE [ok |-> TRUE, path |-> candidate, err |-> "nil"]

\* safeJoin(base, member): [ok, path, err]
safeJoin(base, member) ==
    LET b == Clean(base)
        m == TrimPrefix(member, <<Slash>>)
        candidate == Clean(Join(b, m))
        rel == Rel(b, candidate)
    IN  IF ~rel.ok THEN [ok |-> FALSE, path |-> EmptyStr, err |-> "rel"]
        ELSE IF Escapes(rel.path)
        THEN [ok |-> FALSE, path |-> EmptyStr, err |-> "refusing to write outside target directory"]
        ELSE [ok |-> TRUE, path |-> candidate, err |-> "nil"]

\* safeSymlinkTarget(base, symlinkPath, linkname): the error, "nil" for none.
safeSymlinkTarget(base, symlinkPath, linkname) ==
    LET b == Clean(base)
        resolved == Clean(IF IsAbs(linkname) THEN Join(b, linkname)
                          ELSE Join(Dir(symlinkPath), linkname))
        rel == Rel(b, resolved)
    IN  IF linkname = EmptyStr THEN "symlink target is empty"
        ELSE IF ~rel.ok THEN "refusing symlink: cannot compute relative path"
        ELSE IF Escapes(rel.path) THEN "refusing symlink: target escapes extraction directory"
        ELSE "nil"

\* ------------------------------------------------------- extract to local

\* An entry header with its body: size is Len(data).
Hdr(name, typeflag, linkname, mode, data) ==
    [name |-> name, typeflag |-> typeflag, linkname |-> linkname, mode |-> mode, data |-> data]

\* The I/O steps of one entry's extraction at which the environment may fail
\* (a full disk, a failing read of the archive, a permission denied).
Faults == {"none", "mkdir", "open", "copy", "remove", "link", "upload", "xattr"}

\* The part of a body a failed copy leaves in the destination.
Partial(data) == SubSeq(data, 1, Len(data) \div 2)

\* The tail of extractToLocal: chmod to the header's mode under same-permissions.
\* (Ownership, times and extended attributes are not part of the modelled state.)
restoreMetadata(f, target, hdr, policy) ==
    IF policy.samePerms THEN Chmod(f, target, hdr.mode) ELSE f

\* The end of extractToLocal with the failure of the extended attributes
\* returned as the entry's error.
finishEntryStrict(f, target, hdr, policy, fault) ==
    IF fault = "xattr" THEN [err |-> "io", fs |-> restoreMetadata(f, target, hdr, policy)]
    ELSE [err |-> "nil", fs |-> restoreMetadata(f, target, hdr, policy)]

\* The end of extractToLocal, after the switch: the mode is restored, then the
\* extended attributes and ACLs are decoded and set on the target; the errors
\* of both decoders and of WritePathMetadata are dropped, and the entry
\* returns no warning and no error.
finishEntry(f, target, hdr, policy, fault) ==
    [err |-> "nil", fs |-> restoreMetadata(f, target, hdr, policy)]

\* extractToLocal(base, hdr, tr, policy): [err, fs]
extractDir(f, target, mode, hdr, policy, umask, fault) ==
    Only({
        IF fault = "mkdir" \/ ~m.ok THEN [err |-> "io", fs |-> f]
        ELSE finishEntry(m.fs, target, hdr, policy, fault)
      : m \in {MkdirAll(f, target, mode, umask)}})

extractReg(f, target, mode, hdr, policy, umask, fault) ==
    Only({
        IF fault = "mkdir" \/ ~m.ok THEN [err |-> "io", fs |-> f]
        ELSE Only({
            IF fault = "open" \/ ~w.ok THEN [err |-> "io", fs |-> m.fs]
            ELSE IF fault = "copy"
            THEN [err |-> "io", fs |-> WriteFile(m.fs, target, mode, umask, Partial(hdr.data)).fs]
            ELSE finishEntry(w.fs, target, hdr, policy, fault)
          : w \in {WriteFile(m.fs, target, mode, umask, hdr.data)}})
      : m \in {MkdirAll(f, Dir(target), Perm755, umask)}})

extractSymlink(f, base, target, hdr, policy, umask, fault) ==
    Only({
        IF serr # "nil" THEN [err |-> serr, fs |-> f]
        ELSE Only({
            IF fault = "mkdir" \/ ~m.ok THEN [err |-> "io", fs |-> f]
            ELSE Only({
                IF fault = "remove" \/ (~r.ok /\ ~r.missing) THEN [err |-> "io", fs |-> m.fs]
                ELSE Only({
                    IF fault = "link" \/ ~l.ok THEN [err |-> "io", fs |-> r.fs]
                    ELSE finishEntry(l.fs, target, hdr, policy, fault)
                  : l \in {Symlink(r.fs, hdr.linkname, target)}})
              : r \in {Remove(m.fs, target)}})
          : m \in {MkdirAll(f, Dir(target), Perm755, umask)}})
      : serr \in {safeSymlinkTarget(base, target, hdr.linkname)}})

extractLink(f, base, target, hdr, policy, umask, fault) ==
    Only({
        IF ~lj.ok THEN [err |-> lj.err, fs |-> f]
        ELSE Only({
            IF fault = "mkdir" \/ ~m.ok THEN [err |-> "io", fs |-> f]
            ELSE Only({
                Only({
                    IF fault = "link" \/ ~l.ok THEN [err |-> "io", fs |-> r.fs]
                    ELSE finishEntry(l.fs, target, hdr, policy, fault)
                  : l \in {Link(r.fs, lj.path, target)}})
              : r \in {Remove(m.fs, target)}})
          : m \in {MkdirAll(f, Dir(target), Perm755, umask)}})
      : lj \in {safeJoin(base, hdr.linkname)}})

extractToLocal(f, base, hdr, policy, umask, fault) ==
    Only({
        LET target == j.path
            mode == IF policy.samePerms THEN hdr.mode ELSE hdr.mode \ umask
        IN
        IF ~j.ok THEN [err |-> j.err, fs |-> f]
        ELSE IF hdr.typeflag = "dir" THEN extractDir(f, target, mode, hdr, policy, umask, fault)
        ELSE IF hdr.typeflag = "reg" THEN extractReg(f, target, mode, hdr, policy, umask, fault)
        ELSE IF hdr.typeflag = "symlink"
        THEN extractSymlink(f, base, target, hdr, policy, umask, fault)
        ELSE IF hdr.typeflag = "link"
        THEN extractLink(f, base, target, hdr, policy, umask, fault)
        ELSE IF fault = "copy" THEN [err |-> "io", fs |-> f]
        ELSE [err |-> "nil", fs |-> f]
      : j \in {safeJoin(base, hdr.name)}})

\* ---------------------------------------------------------------- locator

\* The index at which sub first occurs in s at or after position i, 0 if none
\* (strings.Index, one-based).
RECURSIVE IndexOfSub(_, _, _)
IndexOfSub(s, sub, i) ==
    IF i + Len(sub) - 1 > Len(s) THEN 0
    ELSE IF SubSeq(s, i, i + Len(sub) - 1) = sub THEN i
    ELSE IndexOfSub(s, sub, i + 1)

\* strings.SplitN(s, sep, n) for n >= 1 and a non-empty sep: at most n pieces,
\* the last one the unsplit remainder.
RECURSIVE SplitN(_, _, _)
SplitN(s, sep, n) ==
    LET i == IndexOfSub(s, sep, 1) IN
    IF n <= 1 \/ i = 0 THEN <<s>>
    ELSE <<SubSeq(s, 1, i - 1)>> \o SplitN(SubSeq(s, i + Len(sep), Len(s)), sep, n - 1)

\* strings.TrimSuffix
TrimSuffix(s, p) ==
    IF Len(s) >= Len(p) /\ SubSeq(s, Len(s) - Len(p) + 1, Len(s)) = p
    THEN SubSeq(s, 1, Len(s) - Len(p)) ELSE s

\* The prefixes and separators the locator looks for.
Dash == <<"-">>
Colon == <<":">>
S3Scheme == <<"s", "3", ":", "/", "/">>
ArnPrefix == <<"a", "r", "n", ":">>
S3Service == <<"s", "3">>
AccessPointPrefix == <<"a", "c", "c", "e", "s", "s", "p", "o", "i", "n", "t", "/">>
ObjectSep == <<"/", "o", "b", "j", "e", "c", "t", "/">>
BucketPrefix == <<"b", "u", "c", "k", "e", "t", "/">>
TripleColon == <<":", ":", ":">>

\* locator.Ref, with the error beside it; metadata is the map of the query.
NoMeta == << >>
BadRef(msg) == [err |-> msg, kind |-> "none", bucket |-> EmptyStr, key |-> EmptyStr,
                path |-> EmptyStr, metadata |-> NoMeta]
StdioRef == [err |-> "nil", kind |-> "stdio", bucket |-> EmptyStr, key |-> EmptyStr,
             path |-> EmptyStr, metadata |-> NoMeta]
LocalRef(v) == [err |-> "nil", kind |-> "local", bucket |-> EmptyStr, key |-> EmptyStr,
                path |-> v, metadata |-> NoMeta]
S3Ref(bucket, key) == [err |-> "nil", kind |-> "s3", bucket |-> bucket, key |-> key,
                       path |-> EmptyStr, metadata |-> NoMeta]

\* parseS3URI that keeps the slash before the key.
parseS3URIKeepSlash(v) ==
    LET rest == SubSeq(v, Len(S3Scheme) + 1, Len(v))
        i == IndexFrom(rest, Slash, 1)
        bucket == SubSeq(rest, 1, i - 1)
    IN  IF bucket = EmptyStr THEN BadRef("s3 uri must include bucket")
        ELSE S3Ref(bucket, SubSeq(rest, i, Len(rest)))

\* parseS3URI(v) for v that starts with "s3://" and has no userinfo, port,
\* escape, query or fragment: url.Parse gives the host up to the first slash
\* and the path from it.
parseS3URI(v) ==
    LET rest == SubSeq(v, Len(S3Scheme) + 1, Len(v))
        i == IndexFrom(rest, Slash, 1)
        bucket == SubSeq(rest, 1, i - 1)
        key == TrimPrefix(SubSeq(rest, i, Len(rest)), <<Slash>>)
    IN  IF bucket = EmptyStr THEN BadRef("s3 uri must include bucket")
        ELSE S3Ref(bucket, key)

\* parseS3ARN(v): awsarn.Parse wants six colon-separated sections; the service
\* must be s3; an access point needs /object/<key>; anything else is
\* bucket/key.
parseS3ARN(v) ==
    LET sections == SplitN(v, Colon, 6) IN
    IF ~HasPrefix(v, ArnPrefix) \/ Len(sections) # 6 THEN BadRef("invalid arn")
    ELSE IF sections[3] # S3Service THEN BadRef("unsupported arn service")
    ELSE IF HasPrefix(sections[6], AccessPointPrefix)
    THEN LET parts == SplitN(sections[6], ObjectSep, 2) IN
         IF Len(parts) # 2 \/ parts[2] = EmptyStr
         THEN BadRef("unsupported accesspoint arn")
         ELSE S3Ref(ArnPrefix \o sections[2] \o Colon \o sections[3] \o Colon
                    \o sections[4] \o Colon \o sections[5] \o Colon \o parts[1],
                    parts[2])
    ELSE LET parts == SplitN(TrimPrefix(TrimPrefix(sections[6], TripleColon),
                                        BucketPrefix), <<Slash>>, 2) IN
         IF Len(parts) # 2 \/ parts[1] = EmptyStr \/ parts[2] = EmptyStr
         THEN BadRef("unsupported s3 arn")
         ELSE S3Ref(parts[1], parts[2])

\* ParseMember(v): like ParseArchive, without the rule for "-".
ParseMember(v) ==
    IF HasPrefix(v, S3Scheme) THEN parseS3URI(v)
    ELSE IF HasPrefix(v, ArnPrefix) THEN parseS3ARN(v)
    ELSE LocalRef(v)

\* ParseArchive(v)
ParseArchive(v) ==
    IF v = Dash THEN StdioRef
    ELSE IF HasPrefix(v, S3Scheme) THEN parseS3URI(v)
    ELSE IF HasPrefix(v, ArnPrefix) THEN parseS3ARN(v)
    ELSE LocalRef(v)

\* JoinS3Prefix(prefix, name)
JoinS3Prefix(prefix, name) ==
    LET p == TrimSuffix(TrimPrefix(prefix, <<Slash>>), <<Slash>>)
        n == TrimPrefix(name, <<Slash>>)
    IN  IF p = EmptyStr THEN n
        ELSE IF n = EmptyStr THEN p
        ELSE p \o <<Slash>> \o n

\* ------------------------------------------------- object-store metadata

\* strconv.FormatInt(n, base) for base <= 10.
DigitChars == <<"0", "1", "2", "3", "4", "5", "6", "7", "8", "9">>
RECURSIVE FormatNat(_, _)
FormatNat(n, base) ==
    IF n < base THEN <<DigitChars[n + 1]>>
    ELSE FormatNat(n \div base, base) \o <<DigitChars[(n % base) + 1]>>
FormatInt(n, base) == IF n < 0 THEN <<"-">> \o FormatNat(-n, base) ELSE FormatNat(n, base)

\* strconv.Itoa
Itoa(n) == FormatInt(n, 10)

\* int64(hdr.Mode) of permission bits.
BitValue == [b \in PermBits |->
    CASE b = "ur" -> 256 [] b = "uw" -> 128 [] b = "ux" -> 64
      [] b = "gr" -> 32  [] b = "gw" -> 16  [] b = "gx" -> 8
      [] b = "or" -> 4   [] b = "ow" -> 2   [] b = "ox" -> 1]
RECURSIVE ModeValue(_)
ModeValue(perm) ==
    IF perm = {} THEN 0
    ELSE LET b == CHOOSE x \in perm : TRUE IN BitValue[b] + ModeValue(perm \ {b})

\* int(hdr.Typeflag): the byte of the type flag.
TypeflagByte(t) ==
    CASE t = "reg" -> 48 [] t = "link" -> 49 [] t = "symlink" -> 50
      [] t = "dir" -> 53 [] OTHER -> 54

\* The keys of the metadata of an object.
MetaPrefix == <<"g", "o", "t", "g", "z", "-">>
KeyType == MetaPrefix \o <<"t", "y", "p", "e">>
KeyMode == MetaPrefix \o <<"m", "o", "d", "e">>
KeyUid == MetaPrefix \o <<"u", "i", "d">>
KeyGid == MetaPrefix \o <<"g", "i", "d">>
KeyMtime == MetaPrefix \o <<"m", "t", "i", "m", "e">>
KeyLinkname == MetaPrefix \o <<"l", "i", "n", "k", "n", "a", "m", "e">>
KeyUname == MetaPrefix \o <<"u", "n", "a", "m", "e">>
KeyGname == MetaPrefix \o <<"g", "n", "a", "m", "e">>

\* The approximate limit HeaderToS3Metadata holds the metadata to.
MetaLimit == 1500

\* The sum of len(k)+len(v) over a metadata map.
RECURSIVE MetaTotal(_)
MetaTotal(meta) ==
    IF DOMAIN meta = {} THEN 0
    ELSE LET k == CHOOSE x \in DOMAIN meta : TRUE
         IN  Len(k) + Len(meta[k]) + MetaTotal([x \in DOMAIN meta \ {k} |-> meta[x]])

\* The map HeaderToS3Metadata builds: five keys always, three when non-empty.
HeaderMeta(hdr) ==
    LET always == (KeyType :> Itoa(TypeflagByte(hdr.typeflag)))
                  @@ (KeyMode :> FormatInt(ModeValue(hdr.mode), 8))
                  @@ (KeyUid :> Itoa(hdr.uid))
                  @@ (KeyGid :> Itoa(hdr.gid))
                  @@ (KeyMtime :> FormatInt(hdr.mtime, 10))
        link == IF hdr.linkname # EmptyStr THEN (KeyLinkname :> hdr.linkname) ELSE << >>
        uname == IF hdr.uname # EmptyStr THEN (KeyUname :> hdr.uname) ELSE << >>
        gname == IF hdr.gname # EmptyStr THEN (KeyGname :> hdr.gname) ELSE << >>
    IN  always @@ link @@ uname @@ gname

\* HeaderToS3Metadata(hdr): the map, and whether it is within the limit.
HeaderToS3Metadata(hdr) ==
    Only({ [meta |-> m, ok |-> MetaTotal(m) <= MetaLimit] : m \in {HeaderMeta(hdr)} })

\* mergeMetadata(base, overlay): overlay wins; nil (the empty map) of two empty.
mergeMetadata(base, overlay) == overlay @@ base

\* --------------------------------------------------------------- the run

ExitSuccess == 0
ExitWarning == 1
ExitFatal == 2
NoResult == [exit |-> -1, err |-> "nil"]

\* classifyResult with the warnings looked at before the error.
classifyResultWarningsFirst(err, w) ==
    IF w > 0 THEN [exit |-> ExitWarning, err |-> "nil"]
    ELSE IF err # "nil" THEN [exit |-> ExitFatal, err |-> err]
    ELSE [exit |-> ExitSuccess, err |-> "nil"]

\* classifyResult(err, warnings)
classifyResult(err, w) ==
    IF err # "nil" THEN [exit |-> ExitFatal, err |-> err]
    ELSE IF w > 0 THEN [exit |-> ExitWarning, err |-> "nil"]
    ELSE [exit |-> ExitSuccess, err |-> "nil"]

\* currentUmask(): the umask of the process.
currentUmask == Umask022

\* resolvePolicy(opts): root keeps owner and permissions unless overridden. The
\* *bool overrides are "unset" (nil), "true" or "false".
resolvePolicy(o) ==
    [sameOwner |-> IF o.sameOwner = "unset" THEN o.isRoot ELSE o.sameOwner = "true",
     samePerms |-> IF o.samePermissions = "unset" THEN o.isRoot ELSE o.samePermissions = "true",
     numericOwner |-> o.numericOwner]

\* runList printing the name with the strip count applied, and nothing for an
\* entry the count drops.
listEntryStripped(o, hdr, f, out, fault) ==
    LET s == stripPathComponents(hdr.name, o.strip)
        printed == IF shouldSkipMember(o, hdr.name) \/ ~s.ok THEN out
                   ELSE Append(out, s.name)
    IN  IF fault = "copy"
        THEN [err |-> "io", warnings |-> 0, fs |-> f, stdout |-> printed, what |-> "failed"]
        ELSE IF shouldSkipMember(o, hdr.name)
        THEN [err |-> "nil", warnings |-> 0, fs |-> f, stdout |-> out, what |-> "skipped"]
        ELSE [err |-> "nil", warnings |-> 0, fs |-> f, stdout |-> printed, what |-> "listed"]

\* The closure of runList: [err, warnings, fs, stdout, what]. A body that cannot
\* be read to its end is an error.
listEntry(o, hdr, f, out, fault) ==
    IF fault = "copy" THEN [err |-> "io", warnings |-> 0, fs |-> f,
                            stdout |-> IF shouldSkipMember(o, hdr.name) THEN out
                                       ELSE Append(out, hdr.name),
                            what |-> "failed"]
    ELSE IF shouldSkipMember(o, hdr.name)
    THEN [err |-> "nil", warnings |-> 0, fs |-> f, stdout |-> out, what |-> "skipped"]
    ELSE [err |-> "nil", warnings |-> 0, fs |-> f, stdout |-> Append(out, hdr.name),
          what |-> "listed"]

\* The closure of runExtract for a local target: [err, warnings, fs, stdout, what].
extractEntry(o, hdr, f, out, fault) ==
    IF shouldSkipMember(o, hdr.name)
    THEN [err |-> IF fault = "copy" THEN "io" ELSE "nil", warnings |-> 0, fs |-> f,
          stdout |-> out, what |-> IF fault = "copy" THEN "failed" ELSE "skipped"]
    ELSE Only({
        IF ~s.ok
        THEN [err |-> IF fault = "copy" THEN "io" ELSE "nil", warnings |-> 0, fs |-> f,
              stdout |-> out, what |-> IF fault = "copy" THEN "failed" ELSE "dropped"]
        ELSE Only({
            [err |-> x.err, warnings |-> 0, fs |-> x.fs,
             stdout |-> IF o.verbose THEN Append(out, s.name) ELSE out,
             what |-> IF x.err = "nil" THEN "extracted" ELSE "failed"]
          : x \in {extractToLocal(f, o.chdir, [hdr EXCEPT !.name = s.name],
                                  resolvePolicy(o), currentUmask, fault)}})
      : s \in {stripPathComponents(hdr.name, o.strip)}})

\* The closure of runExtract to standard output with the body of an entry of
\* any type copied out.
extractEntryStdoutAnyType(o, hdr, f, out, fault) ==
    IF shouldSkipMember(o, hdr.name) \/ ~stripPathComponents(hdr.name, o.strip).ok
    THEN [err |-> IF fault = "copy" THEN "io" ELSE "nil", warnings |-> 0, fs |-> f,
          stdout |-> out, what |-> IF fault = "copy" THEN "failed" ELSE "skipped"]
    ELSE IF fault = "copy"
    THEN [err |-> "io", warnings |-> 0, fs |-> f, stdout |-> out \o Partial(hdr.data),
          what |-> "failed"]
    ELSE [err |-> "nil", warnings |-> 0, fs |-> f, stdout |-> out \o hdr.data,
          what |-> "extracted"]

\* The closure of runExtract under ToStdout: [err, warnings, fs, stdout, what].
\* An entry the member filter skips, the strip count drops, or that is not a
\* regular file is read to its end and discarded; the body of a regular file
\* is copied to standard output, in part when the copy fails.
extractEntryStdout(o, hdr, f, out, fault) ==
    IF shouldSkipMember(o, hdr.name)
    THEN [err |-> IF fault = "copy" THEN "io" ELSE "nil", warnings |-> 0, fs |-> f,
          stdout |-> out, what |-> IF fault = "copy" THEN "failed" ELSE "skipped"]
    ELSE IF ~stripPathComponents(hdr.name, o.strip).ok
    THEN [err |-> IF fault = "copy" THEN "io" ELSE "nil", warnings |-> 0, fs |-> f,
          stdout |-> out, what |-> IF fault = "copy" THEN "failed" ELSE "dropped"]
    ELSE IF hdr.typeflag # "reg"
    THEN [err |-> IF fault = "copy" THEN "io" ELSE "nil", warnings |-> 0, fs |-> f,
          stdout |-> out, what |-> IF fault = "copy" THEN "failed" ELSE "discarded"]
    ELSE IF fault = "copy"
    THEN [err |-> "io", warnings |-> 0, fs |-> f, stdout |-> out \o Partial(hdr.data),
          what |-> "failed"]
    ELSE [err |-> "nil", warnings |-> 0, fs |-> f, stdout |-> out \o hdr.data,
          what |-> "extracted"]

\* The closure scanArchive is given, by mode.
entryFn(o, hdr, f, out, fault) ==
    IF o.mode = "t" THEN listEntry(o, hdr, f, out, fault)
    ELSE IF o.toStdout THEN extractEntryStdout(o, hdr, f, out, fault)
    ELSE extractEntry(o, hdr, f, out, fault)

\* The object store, empty; an object is kept under <<bucket, key>>.
NoObjects == << >>
PutObject(objs, bucket, key, data, meta) ==
    (<<bucket, key>> :> [data |-> data, meta |-> meta]) @@ objs

\* The diagnostic extractToS3 prints for metadata over the limit.
MetaWarning(name) == [msg |-> "metadata exceeds S3 metadata limit", name |-> name]

\* extractToS3 that uploads without counting or printing the warning.
extractToS3Silent(target, hdr, objs, errw, fault) ==
    Only({
        IF name = EmptyStr
        THEN [err |-> IF Len(hdr.data) > 0 /\ fault = "copy" THEN "io" ELSE "nil",
              warnings |-> 0, objects |-> objs, stderr |-> errw]
        ELSE Only({
            IF hdr.typeflag = "reg"
            THEN IF fault \in {"copy", "upload"}
                 THEN [err |-> "io", warnings |-> 0, objects |-> objs, stderr |-> errw]
                 ELSE [err |-> "nil", warnings |-> 0, stderr |-> errw,
                       objects |-> PutObject(objs, target.bucket,
                                             JoinS3Prefix(target.key, name), hdr.data,
                                             mergeMetadata(target.metadata, h.meta))]
            ELSE IF hdr.typeflag = "dir"
            THEN [err |-> IF Len(hdr.data) > 0 /\ fault = "copy" THEN "io" ELSE "nil",
                  warnings |-> 0, objects |-> objs, stderr |-> errw]
            ELSE IF fault = "upload"
            THEN [err |-> "io", warnings |-> 0, objects |-> objs, stderr |-> errw]
            ELSE [err |-> "nil", warnings |-> 0, stderr |-> errw,
                  objects |-> PutObject(objs, target.bucket,
                                        JoinS3Prefix(target.key, name), EmptyStr,
                                        mergeMetadata(target.metadata, h.meta))]
          : h \in {HeaderToS3Metadata(hdr)}})
      : name \in {TrimPrefix(hdr.name, <<Dot, Slash>>)}})

\* extractToS3(target, hdr): [err, warnings, objects, stderr]. An entry whose
\* name is empty makes no object; a regular file is uploaded with its data, a
\* directory makes no object, anything else is an empty object. The upload or
\* the reading of the body may fail.
extractToS3(target, hdr, objs, errw, fault) ==
    Only({
        IF name = EmptyStr
        THEN [err |-> IF Len(hdr.data) > 0 /\ fault = "copy" THEN "io" ELSE "nil",
              warnings |-> 0, objects |-> objs, stderr |-> errw]
        ELSE Only({
            LET w == IF h.ok THEN 0 ELSE 1
                ew == IF h.ok THEN errw ELSE Append(errw, MetaWarning(hdr.name))
            IN  IF hdr.typeflag = "reg"
                THEN IF fault \in {"copy", "upload"}
                     THEN [err |-> "io", warnings |-> w, objects |-> objs, stderr |-> ew]
                     ELSE [err |-> "nil", warnings |-> w, stderr |-> ew,
                           objects |-> PutObject(objs, target.bucket,
                                                 JoinS3Prefix(target.key, name), hdr.data,
                                                 mergeMetadata(target.metadata, h.meta))]
                ELSE IF hdr.typeflag = "dir"
                THEN [err |-> IF Len(hdr.data) > 0 /\ fault = "copy" THEN "io" ELSE "nil",
                      warnings |-> w, objects |-> objs, stderr |-> ew]
                ELSE IF fault = "upload"
                THEN [err |-> "io", warnings |-> w, objects |-> objs, stderr |-> ew]
                ELSE [err |-> "nil", warnings |-> w, stderr |-> ew,
                      objects |-> PutObject(objs, target.bucket,
                                            JoinS3Prefix(target.key, name), EmptyStr,
                                            (KeyType :> Itoa(TypeflagByte(hdr.typeflag)))
                                            @@ mergeMetadata(target.metadata, h.meta))]
          : h \in {HeaderToS3Metadata(hdr)}})
      : name \in {TrimPrefix(hdr.name, <<Dot, Slash>>)}})

\* The target of an extraction: ParseArchive of opts.Chdir, "." when empty.
extractTarget(o) == ParseArchive(IF o.chdir = EmptyStr THEN DotStr ELSE o.chdir)

\* The closure of runExtract for an object-store target:
\* [err, warnings, fs, stdout, what, objects, stderr].
extractEntryS3(o, hdr, f, objs, errw, out, fault) ==
    IF shouldSkipMember(o, hdr.name)
    THEN [err |-> IF fault = "copy" THEN "io" ELSE "nil", warnings |-> 0, fs |-> f,
          stdout |-> out, what |-> IF fault = "copy" THEN "failed" ELSE "skipped",
          objects |-> objs, stderr |-> errw]
    ELSE Only({
        IF ~s.ok
        THEN [err |-> IF fault = "copy" THEN "io" ELSE "nil", warnings |-> 0, fs |-> f,
              stdout |-> out, what |-> IF fault = "copy" THEN "failed" ELSE "dropped",
              objects |-> objs, stderr |-> errw]
        ELSE Only({
            [err |-> x.err, warnings |-> x.warnings, fs |-> f,
             stdout |-> IF o.verbose THEN Append(out, s.name) ELSE out,
             what |-> IF x.err = "nil" THEN "extracted" ELSE "failed",
             objects |-> x.objects, stderr |-> x.stderr]
          : x \in {extractToS3(extractTarget(o), [hdr EXCEPT !.name = s.name],
                               objs, errw, fault)}})
      : s \in {stripPathComponents(hdr.name, o.strip)}})

\* One call of the closure scanArchive is given, on the whole of what it can
\* change: the filesystem, the object store, standard output and error.
entryStep(o, hdr, f, objs, errw, out, fault) ==
    IF o.mode = "x" /\ ~o.toStdout /\ extractTarget(o).kind = "s3"
    THEN extractEntryS3(o, hdr, f, objs, errw, out, fault)
    ELSE Only({ [err |-> r.err, warnings |-> r.warnings, fs |-> r.fs, stdout |-> r.stdout,
                 what |-> r.what, objects |-> objs, stderr |-> errw]
              : r \in {entryFn(o, hdr, f, out, fault)} })

\* Run: the mode switch, runExtract's parse of the target (not reached under
\* ToStdout), and scanArchive up to its loop. Opening the archive (ParseArchive, openArchiveReader,
\* compress.NewReader) may fail.
RunStart ==
    /\ pc = "call"
    /\ opts.mode # "c"
    /\ IF opts.mode \notin {"c", "x", "t"}
       THEN /\ result' = [exit |-> ExitFatal, err |-> "unsupported mode"]
            /\ pc' = "returned"
       ELSE IF opts.mode = "x" /\ ~opts.toStdout /\ extractTarget(opts).err # "nil"
       THEN /\ result' = classifyResult(extractTarget(opts).err, 0)
            /\ pc' = "returned"
       ELSE \E openErr \in {"nil", "io"} :
            IF openErr # "nil"
            THEN /\ result' = classifyResult(openErr, 0)
                 /\ pc' = "returned"
            ELSE /\ pc' = "scan"
                 /\ UNCHANGED result
    /\ UNCHANGED <<opts, archive, pos, fs, stdout, warnings, done, fnVars, up, objects, stderr, ctx, cr>>

\* scanArchive: tr.Next() returns io.EOF, the loop ends and Run returns.
ScanEOF ==
    /\ pc = "scan"
    /\ pos > Len(archive)
    /\ result' = classifyResult("nil", warnings)
    /\ pc' = "returned"
    /\ UNCHANGED <<opts, archive, pos, fs, stdout, warnings, done, fnVars, up, objects, stderr, ctx, cr>>

\* scanArchive: tr.Next() fails (a truncated or corrupt stream).
ScanReadError ==
    /\ pc = "scan"
    /\ pos <= Len(archive)
    /\ result' = classifyResult("io", warnings)
    /\ pc' = "returned"
    /\ UNCHANGED <<opts, archive, pos, fs, stdout, warnings, done, fnVars, up, objects, stderr, ctx, cr>>

\* scanArchive with a loop that goes on to the next header after an entry's
\* error.
ScanEntryKeepGoing ==
    /\ pc = "scan"
    /\ pos <= Len(archive)
    /\ \E fault \in Faults :
        \E r \in {entryStep(opts, archive[pos], fs, objects, stderr, stdout, fault)} :
            /\ fs' = r.fs
            /\ objects' = r.objects
            /\ stderr' = r.stderr
            /\ stdout' = r.stdout
            /\ warnings' = warnings + r.warnings
            /\ done' = Append(done, [hdr |-> archive[pos], what |-> r.what, err |-> r.err,
                                     before |-> fs, after |-> r.fs, w |-> r.warnings,
                                     objBefore |-> objects, errBefore |-> stderr,
                                     meta |-> fault = "xattr",
                                     ctx |-> ctx])
            /\ pos' = pos + 1
    /\ UNCHANGED <<opts, archive, result, pc, fnVars, up, ctx, cr>>

\* scanArchive: tr.Next() returns a header, fn handles the entry, and its error
\* ends the run.
ScanEntry ==
    /\ pc = "scan"
    /\ pos <= Len(archive)
    /\ \E fault \in Faults :
        \E r \in {entryStep(opts, archive[pos], fs, objects, stderr, stdout, fault)} :
        LET hdr == archive[pos]
        IN  /\ fs' = r.fs
            /\ objects' = r.objects
            /\ stderr' = r.stderr
            /\ stdout' = r.stdout
            /\ warnings' = warnings + r.warnings
            /\ done' = Append(done, [hdr |-> hdr, what |-> r.what, err |-> r.err,
                                     before |-> fs, after |-> r.fs, w |-> r.warnings,
                                     objBefore |-> objects, errBefore |-> stderr,
                                     meta |-> fault = "xattr",
                                     ctx |-> ctx])
            /\ pos' = pos + 1
            /\ IF r.err # "nil"
               THEN /\ result' = classifyResult(r.err, warnings + r.warnings)
                    /\ pc' = "returned"
               ELSE UNCHANGED <<result, pc>>
    /\ UNCHANGED <<opts, archive, fnVars, up, ctx, cr>>

\* ------------------------------------------------------------ SpecExtract

\* The directory extracted into, a file outside it, and the empty start.
BaseDir == <<Slash, "o">>
OutsideDir == <<Slash, "e">>
OutsideFile == <<Slash, "e", Slash, "p">>
InitFs == (BaseDir :> DirNode(Perm755)) @@ (OutsideDir :> DirNode(Perm755))
          @@ (OutsideFile :> FileNode(Perm644, <<7>>, 1)) @@ (Cwd :> DirNode(Perm755))

\* The entries archives are built from: plain files and directories, names that
\* climb out of the target, links that point inside and outside it, and names
\* that pass through a link.
ExtractEntries == {
    Hdr(<<"a">>, "reg", EmptyStr, Perm644, <<1, 2>>),
    Hdr(<<"d">>, "dir", EmptyStr, Perm755, << >>),
    Hdr(<<"d", Slash, "a">>, "reg", EmptyStr, Perm600, <<3>>),
    Hdr(<<Slash, "a">>, "reg", EmptyStr, Perm600, <<4>>),
    Hdr(<<Dot, Dot, Slash, Dot, Dot, Slash, "e", Slash, "p">>, "reg", EmptyStr, Perm644, <<9>>),
    Hdr(<<Dot, Dot>>, "dir", EmptyStr, Perm777, << >>),
    Hdr(<<"l">>, "symlink", <<Slash, "e", Slash, "p">>, Perm777, << >>),
    Hdr(<<"l">>, "symlink", <<Dot, Dot, Slash, Dot, Dot, Slash, "x">>, Perm777, << >>),
    Hdr(<<"d", Slash, "l">>, "symlink", <<Dot, Dot, Slash, Dot, Dot, Slash, "x">>, Perm777, << >>),
    Hdr(<<"l">>, "symlink", <<"a">>, Perm777, << >>),
    Hdr(<<"l">>, "symlink", <<"d">>, Perm777, << >>),
    Hdr(<<"l", Slash, "a">>, "reg", EmptyStr, Perm644, <<5>>),
    Hdr(<<"h">>, "link", <<"a">>, Perm644, << >>),
    Hdr(<<"h">>, "link", <<Dot, Dot, Slash, "e", Slash, "p">>, Perm644, << >>),
    Hdr(<<"f">>, "other", EmptyStr, Perm644, <<6>>)
}

SeqsUpTo(S, n) == UNION {[1..k -> S] : k \in 0..n}

ExtractOpts ==
    [mode : {"x"}, members : {<< >>}, wildcards : {FALSE}, strip : 0..MaxRunStrip,
     toStdout : {FALSE}, verbose : {FALSE}, chdir : {BaseDir},
     isRoot : {FALSE}, sameOwner : {"unset"}, samePermissions : {"unset", "true"},
     numericOwner : {FALSE}]

InitExtract ==
    /\ opts \in ExtractOpts
    /\ archive \in SeqsUpTo(ExtractEntries, MaxEntries)
    /\ pos = 1
    /\ fs = InitFs
    /\ stdout = << >>
    /\ warnings = 0
    /\ result = NoResult
    /\ pc = "call"
    /\ done = << >>
    /\ up = NoRet
    /\ objects = NoObjects
    /\ stderr = << >>
    /\ ctx = "live"
    /\ cr = NoRet
    /\ call = NoRet
    /\ ret = NoRet

NextExtract == RunStart \/ ScanEOF \/ ScanReadError \/ ScanEntry

SpecExtract == InitExtract /\ [][NextExtract]_vars

\* ------------------------------------------------------- claims: extract

\* The name an entry is extracted under, and whether it reaches extraction.
EffectiveName(e) == stripPathComponents(e.hdr.name, opts.strip).name
Dispatched(e) ==
    /\ ~shouldSkipMember(opts, e.hdr.name)
    /\ stripPathComponents(e.hdr.name, opts.strip).ok

\* A name climbs out of base: joined to the cleaned base and cleaned, it is ".."
\* or starts with "../" relative to base.
ClimbsOut(base, name) ==
    LET rel == Rel(Clean(base), Clean(Join(Clean(base), TrimPrefix(name, <<Slash>>))))
    IN  rel.ok /\ (rel.path = DotDot \/ HasPrefix(rel.path, <<Dot, Dot, Slash>>))

\* C2: an entry whose name climbs out of the target directory (such as
\* ../../e/p) ends the run Fatal with the refusal as its error, and leaves the
\* filesystem exactly as it was before the entry: nothing is created, inside
\* or outside the target.
C2_TraversalRefused ==
    \A i \in 1..Len(done) :
        (Dispatched(done[i]) /\ ClimbsOut(opts.chdir, EffectiveName(done[i])))
        => /\ done[i].err = "refusing to write outside target directory"
           /\ done[i].after = done[i].before
           /\ fs = done[i].before
           /\ pc = "returned"
           /\ result = [exit |-> ExitFatal, err |-> done[i].err]

TraversalName == <<Dot, Dot, Slash, Dot, Dot, Slash, "e", Slash, "p">>

\* C2's case: ../../e/p was read, after an earlier entry was extracted.
C2_Witness ==
    /\ Len(done) = 2
    /\ opts.strip = 0
    /\ done[1].what = "extracted"
    /\ done[2].hdr.name = TraversalName
    /\ pc = "returned"

\* Where a symbolic link at linkPath with target linkname points, lexically.
LinkPointsTo(linkPath, linkname) ==
    IF IsAbs(linkname) THEN Clean(linkname) ELSE Join(Dir(linkPath), linkname)

\* A path lies outside base.
Outside(base, p) ==
    LET rel == Rel(base, p)
    IN  ~rel.ok \/ rel.path = DotDot \/ HasPrefix(rel.path, <<Dot, Dot, Slash>>)

\* C3: a symlink entry whose target is absolute and outside the target
\* directory (/e/p), or relative and resolving outside it (../../x), is refused
\* with a fatal error and leaves no symlink behind.
C3_EscapingSymlinkRefused ==
    \A i \in 1..Len(done) :
        LET e == done[i]
            linkPath == Join(opts.chdir, TrimPrefix(EffectiveName(e), <<Slash>>))
        IN  (/\ Dispatched(e)
             /\ e.hdr.typeflag = "symlink"
             /\ ~ClimbsOut(opts.chdir, EffectiveName(e))
             /\ Outside(opts.chdir, LinkPointsTo(linkPath, e.hdr.linkname)))
            => /\ e.err # "nil"
               /\ result.exit = ExitFatal
               /\ Lstat(fs, linkPath).kind # "symlink"

C21_MetadataFailureSwallowed ==
    /\ \A i \in 1..Len(done) :
          (opts.mode = "x" /\ done[i].meta) =>
              \E clean \in {entryStep(opts, done[i].hdr, done[i].before, done[i].objBefore,
                                      done[i].errBefore, << >>, "none")} :
                  /\ done[i].err = clean.err
                  /\ done[i].w = 0
                  /\ done[i].after = clean.fs
    /\ (pc = "returned" /\ Len(done) > 0 /\ done[Len(done)].err = "nil"
        /\ result.exit = ExitFatal) => pos <= Len(archive)
    /\ (pc = "returned" /\ pos > Len(archive) /\ (\E i \in 1..Len(done) : done[i].meta)
        /\ \A i \in 1..Len(done) : done[i].err = "nil")
       => result = classifyResult("nil", warnings)

\* C21's case: the attributes of the first of two entries failed after its
\* file was written, the second entry was extracted, and the run succeeded.
C21_Witness ==
    /\ Len(done) = 2
    /\ done[1].meta
    /\ done[1].hdr.typeflag = "reg"
    /\ done[1].what = "extracted"
    /\ done[1].after # done[1].before
    /\ done[2].what = "extracted"
    /\ pc = "returned"
    /\ result.exit = ExitSuccess

\* ---------------------------------------------------------- SpecStrip

NameAlphabet == {"a", "b", Slash, Dot}

IdleRun ==
    /\ opts = NoRet
    /\ archive = << >>
    /\ pos = 1
    /\ fs = << >>
    /\ stdout = << >>
    /\ warnings = 0
    /\ result = NoResult
    /\ pc = "idle"
    /\ done = << >>
    /\ up = NoRet
    /\ objects = NoObjects
    /\ stderr = << >>
    /\ ctx = "live"
    /\ cr = NoRet

InitStrip ==
    /\ call \in [name : StrsUpTo(NameAlphabet, MaxNameLen), count : -1..MaxStrip]
    /\ ret = NoRet
    /\ IdleRun

\* The options of an extraction that strips count components and prints the
\* names it extracts.
StripOpts(count) ==
    [mode |-> "x", members |-> << >>, wildcards |-> FALSE, strip |-> count,
     toStdout |-> FALSE, verbose |-> TRUE, chdir |-> BaseDir,
     isRoot |-> FALSE, sameOwner |-> "unset", samePermissions |-> "unset",
     numericOwner |-> FALSE]

\* stripPathComponents(call.name, call.count), and the extraction of a regular
\* file of that name under that strip count.
StripCall ==
    /\ ret = NoRet
    /\ ret' = [kind |-> "strip",
               strip |-> stripPathComponents(call.name, call.count),
               entry |-> extractEntry(StripOpts(call.count),
                                      Hdr(call.name, "reg", EmptyStr, Perm644, <<1, 2>>),
                                      InitFs, << >>, "none")]
    /\ UNCHANGED <<call, runVars, up, objects, stderr, ctx, cr>>

NextStrip == StripCall

SpecStrip == InitStrip /\ [][NextStrip]_vars

\* The segments of a path: its maximal runs without a slash, the empty ones and
\* the "." ones left out.
RECURSIVE SegmentsFrom(_, _)
SegmentsFrom(s, cur) ==
    LET kept == IF cur = EmptyStr \/ cur = DotStr THEN << >> ELSE <<cur>>
    IN  IF s = EmptyStr THEN kept
        ELSE IF Head(s) = Slash THEN kept \o SegmentsFrom(Tail(s), EmptyStr)
        ELSE SegmentsFrom(Tail(s), Append(cur, Head(s)))

Segments(s) == SegmentsFrom(s, EmptyStr)

\* The segments from the n-th on, with a slash between them.
RECURSIVE Slashed(_)
Slashed(segs) ==
    IF segs = << >> THEN EmptyStr
    ELSE IF Len(segs) = 1 THEN segs[1]
    ELSE segs[1] \o <<Slash>> \o Slashed(Tail(segs))

\* a/b/a at N = 2 is extracted as a.
StripKeepsLast ==
    (call = [name |-> <<"a", Slash, "b", Slash, "a">>, count |-> 2] /\ ret # NoRet)
    => /\ ret.strip = [name |-> <<"a">>, ok |-> TRUE]
       /\ ret.entry.what = "extracted"
       /\ ret.entry.stdout = << <<"a">> >>
       /\ Lstat(ret.entry.fs, BaseDir \o <<Slash, "a">>).kind = "file"

\* C7: for N <= 0 the name is returned unchanged and kept; for N >= 1, with k
\* the number of non-empty, non-"." segments of the cleaned name, the name
\* returned is the last k-N segments joined by "/" when k > N, and when k <= N
\* the entry is dropped: its extraction returns no error, prints nothing and
\* leaves the filesystem as it was. So a/b/a is extracted as a at N = 2.
C7_StripContract ==
    ret # NoRet =>
        LET segs == Segments(Clean(TrimPrefix(call.name, <<Slash>>)))
            k == Len(segs)
            N == call.count
        IN  /\ N <= 0 => ret.strip = [name |-> call.name, ok |-> TRUE]
            /\ (N >= 1 /\ k > N) =>
                   ret.strip = [name |-> Slashed(SubSeq(segs, N + 1, k)), ok |-> TRUE]
            /\ (N >= 1 /\ k <= N) =>
                   /\ ~ret.strip.ok
                   /\ ret.entry.what = "dropped"
                   /\ ret.entry.err = "nil"
                   /\ ret.entry.stdout = << >>
                   /\ ret.entry.fs = InitFs
            /\ StripKeepsLast

\* C7's case: a/b/a is dropped at N = 3, the first count that reaches its
\* number of segments.
C7_Witness ==
    /\ call = [name |-> <<"a", Slash, "b", Slash, "a">>, count |-> 3]
    /\ ret # NoRet
    /\ ~ret.strip.ok
    /\ ret.entry.what = "dropped"

\* ---------------------------------------------------------- SpecMember

PatternAlphabet == {"a", Slash, "*", "?"}
MemberNameAlphabet == {"a", "b", Slash}

\* A second member the lists may start with.
OtherMember == <<"b">>

\* The member lists: none, one pattern, and lists of two members.
MemberLists ==
    {<< >>} \cup {<<p>> : p \in StrsUpTo(PatternAlphabet, MaxPatLen)}
            \cup {<<OtherMember, <<"a", "*">> >>, << <<"a">>, OtherMember>>,
                  << <<"?">>, <<"a", Slash, "*">> >>}

\* The options of a run that filters by members.
MemberOpts(mode, members, wildcards) ==
    [mode |-> mode, members |-> members, wildcards |-> wildcards, strip |-> 0,
     toStdout |-> FALSE, verbose |-> FALSE, chdir |-> BaseDir,
     isRoot |-> FALSE, sameOwner |-> "unset", samePermissions |-> "unset",
     numericOwner |-> FALSE]

InitMember ==
    /\ call \in [members : MemberLists, wildcards : BOOLEAN,
                 name : StrsUpTo(MemberNameAlphabet, MaxMemberNameLen)]
    /\ ret = NoRet
    /\ IdleRun

\* shouldSkipMember(opts, call.name), and what List and Extract do with a
\* regular file of that name.
MemberCall ==
    /\ ret = NoRet
    /\ ret' = [kind |-> "member",
               skip |-> shouldSkipMember(MemberOpts("x", call.members, call.wildcards),
                                         call.name),
               list |-> listEntry(MemberOpts("t", call.members, call.wildcards),
                                  Hdr(call.name, "reg", EmptyStr, Perm644, <<1, 2>>),
                                  InitFs, << >>, "none"),
               extract |-> extractEntry(MemberOpts("x", call.members, call.wildcards),
                                        Hdr(call.name, "reg", EmptyStr, Perm644, <<1, 2>>),
                                        InitFs, << >>, "none")]
    /\ UNCHANGED <<call, runVars, up, objects, stderr, ctx, cr>>

NextMember == MemberCall

SpecMember == InitMember /\ [][NextMember]_vars

\* A pattern matches a whole name: "*" stands for any run of characters
\* without a slash, "?" for one character that is not a slash, any other
\* character for itself.
RECURSIVE Glob(_, _)
Glob(p, n) ==
    IF p = EmptyStr THEN n = EmptyStr
    ELSE IF Head(p) = "*"
    THEN Glob(Tail(p), n) \/ (n # EmptyStr /\ Head(n) # Slash /\ Glob(p, Tail(n)))
    ELSE IF Head(p) = "?"
    THEN n # EmptyStr /\ Head(n) # Slash /\ Glob(Tail(p), Tail(n))
    ELSE n # EmptyStr /\ Head(n) = Head(p) /\ Glob(Tail(p), Tail(n))

\* The entry passes the member filter.
Selected(members, wildcards, name) ==
    \/ members = << >>
    \/ \E i \in 1..Len(members) :
          IF wildcards THEN Glob(members[i], name) ELSE members[i] = name

\* With wildcards on, a/* rejects a/b/a, and with wildcards off it rejects a/b.
StarStopsAtSlash ==
    ret # NoRet =>
        /\ (call.members = << <<"a", Slash, "*">> >> /\ call.wildcards
             /\ call.name = <<"a", Slash, "b", Slash, "a">>) => ret.skip
        /\ (call.members = << <<"a", Slash, "*">> >> /\ ~call.wildcards
             /\ call.name = <<"a", Slash, "b">>) => ret.skip

\* C8: with a non-empty member list an entry is processed by List and by
\* Extract exactly when its name equals some member, or with wildcards on when
\* some member pattern matches the whole name with "*" not crossing "/"; with
\* an empty list every entry is processed. So a/* selects a/b and rejects
\* a/b/a.
C8_MemberFilter ==
    ret # NoRet =>
        LET sel == Selected(call.members, call.wildcards, call.name)
        IN  /\ ret.skip = ~sel
            /\ (ret.list.what = "listed") = sel
            /\ (ret.list.stdout = << call.name >>) = sel
            /\ (ret.extract.what # "skipped") = sel
            /\ ~sel => /\ ret.list.stdout = << >>
                       /\ ret.extract.fs = InitFs
                       /\ ret.extract.err = "nil"
            /\ StarStopsAtSlash

\* C8's case: with wildcards on, a/* selects a/b.
C8_Witness ==
    /\ call = [members |-> << <<"a", Slash, "*">> >>, wildcards |-> TRUE,
               name |-> <<"a", Slash, "b">>]
    /\ ret # NoRet
    /\ ~ret.skip
    /\ ret.list.stdout = << <<"a", Slash, "b">> >>

\* ------------------------------------------------------------ SpecList

\* The entries listed archives are built from.
ListEntries == {
    Hdr(<<"a">>, "reg", EmptyStr, Perm644, <<1, 2>>),
    Hdr(<<"d">>, "dir", EmptyStr, Perm755, << >>),
    Hdr(<<"d", Slash, "a">>, "reg", EmptyStr, Perm644, <<3>>),
    Hdr(<<"d", Slash, "b", Slash, "a">>, "reg", EmptyStr, Perm600, <<4>>)}

ListMembers == {<< >>, << <<"d", Slash, "a">> >>, << <<"d", Slash, "*">> >>}

ListOpts ==
    [mode : {"t"}, members : ListMembers, wildcards : BOOLEAN, strip : 0..MaxRunStrip,
     toStdout : {FALSE}, verbose : {FALSE}, chdir : {BaseDir},
     isRoot : {FALSE}, sameOwner : {"unset"}, samePermissions : {"unset"},
     numericOwner : {FALSE}]

InitList ==
    /\ opts \in ListOpts
    /\ archive \in SeqsUpTo(ListEntries, MaxEntries)
    /\ pos = 1
    /\ fs = InitFs
    /\ stdout = << >>
    /\ warnings = 0
    /\ result = NoResult
    /\ pc = "call"
    /\ done = << >>
    /\ up = NoRet
    /\ objects = NoObjects
    /\ stderr = << >>
    /\ ctx = "live"
    /\ cr = NoRet
    /\ call = NoRet
    /\ ret = NoRet

NextList == RunStart \/ ScanEOF \/ ScanReadError \/ ScanEntry

SpecList == InitList /\ [][NextList]_vars

\* The names of the entries read so far that pass the member filter, stripped
\* or not, in the order read.
RECURSIVE SurvivorNames(_, _)
SurvivorNames(entries, stripped) ==
    IF entries = << >> THEN << >>
    ELSE LET name == Head(entries).hdr.name
             rest == SurvivorNames(Tail(entries), stripped)
         IN  IF ~Selected(opts.members, opts.wildcards, name) THEN rest
             ELSE IF stripped
             THEN IF stripPathComponents(name, opts.strip).ok
                  THEN <<stripPathComponents(name, opts.strip).name>> \o rest
                  ELSE rest
             ELSE <<name>> \o rest

\* C9: in List mode the lines printed are the unmodified names of the entries
\* that pass the member filter, in archive order, whatever strip count was
\* asked for; nothing on the filesystem changes.
C9_ListPrintsUnmodifiedName ==
    /\ stdout = SurvivorNames(done, FALSE)
    /\ fs = InitFs

\* C9's case: d/a listed under a strip count of 1.
C9_Witness ==
    /\ opts.strip = 1
    /\ Len(done) > 0
    /\ done[1].hdr.name = <<"d", Slash, "a">>
    /\ stdout = << <<"d", Slash, "a">> >>
    /\ pc = "returned"

\* C9 as stated: with a strip count N > 0 the lines printed are the names
\* with their first N segments removed.
C9_ListPrintsStrippedName ==
    opts.strip > 0 => stdout = SurvivorNames(done, TRUE)

\* ------------------------------------------------------- create, local

\* The byte of a character, for the order in which a directory is read.
CharCode(c) ==
    CASE c = "*" -> 42 [] c = Dot -> 46 [] c = Slash -> 47 [] c = "?" -> 63
      [] c = "a" -> 97 [] c = "b" -> 98 [] c = "d" -> 100 [] c = "e" -> 101
      [] c = "o" -> 111 [] c = "p" -> 112 [] c = "s" -> 115 [] c = "w" -> 119
      [] c = "x" -> 120 [] c = "z" -> 122

\* x sorts before y, byte by byte.
RECURSIVE StrLess(_, _)
StrLess(x, y) ==
    IF y = EmptyStr THEN FALSE
    ELSE IF x = EmptyStr THEN TRUE
    ELSE IF Head(x) # Head(y) THEN CharCode(Head(x)) < CharCode(Head(y))
    ELSE StrLess(Tail(x), Tail(y))

RECURSIVE SortedNames(_)
SortedNames(S) ==
    IF S = {} THEN << >>
    ELSE LET m == CHOOSE m \in S : \A other \in S \ {m} : StrLess(m, other)
         IN  <<m>> \o SortedNames(S \ {m})

\* os.ReadDir as filepath.WalkDir uses it: the names in a directory, sorted.
ReadDir(f, dir) ==
    SortedNames({SubSeq(q, Len(dir) + 2, Len(q)) :
                    q \in {q \in DOMAIN f : Len(q) > Len(dir) /\ Dir(q) = dir}})

\* tar.FileInfoHeader(st, linkname) with hdr.Name set to the archive name: the
\* type and permission bits of the Lstat, the target of a link, the bytes of
\* a regular file.
fileHeader(st, archiveName) ==
    CASE st.kind = "dir" -> Hdr(archiveName, "dir", EmptyStr, st.perm, << >>)
      [] st.kind = "symlink" -> Hdr(archiveName, "symlink", st.target, Perm777, << >>)
      [] st.kind = "file" -> Hdr(archiveName, "reg", EmptyStr, st.perm, st.data)

\* The callback of addLocalPath at current, and filepath.WalkDir's descent:
\* the headers written, in order. An excluded path writes nothing, and an
\* excluded directory is not entered; symbolic links are not followed.
RECURSIVE walkDir(_, _, _, _, _)
RECURSIVE walkNames(_, _, _, _, _, _)
walkNames(f, basePath, cleanMember, excludes, dir, names) ==
    IF names = << >> THEN << >>
    ELSE walkDir(f, basePath, cleanMember, excludes, dir \o <<Slash>> \o Head(names))
         \o walkNames(f, basePath, cleanMember, excludes, dir, Tail(names))

walkDir(f, basePath, cleanMember, excludes, current) ==
    Only({
        IF matchExclude(excludes, archiveName) THEN << >>
        ELSE <<fileHeader(st, archiveName)>>
             \o IF st.kind = "dir"
                THEN walkNames(f, basePath, cleanMember, excludes, current,
                               ReadDir(f, current))
                ELSE << >>
      : st \in {Lstat(f, current)},
        archiveName \in {IF Rel(basePath, current).path = DotStr THEN cleanMember
                         ELSE Join(cleanMember, Rel(basePath, current).path)}})

\* addLocalPath(member, chdir, excludes): [err, entries]. A member that does
\* not exist is the walk's error.
addLocalPath(f, member, chdir, excludes) ==
    LET basePath == IF chdir # EmptyStr THEN Join(chdir, member) ELSE member
    IN  IF Lstat(f, basePath).kind = "none" THEN [err |-> "io", entries |-> << >>]
        ELSE [err |-> "nil",
              entries |-> walkDir(f, basePath, Clean(member), excludes, basePath)]

\* runCreate for local members into a local archive: [err, entries], the
\* entries those written before the first error.
RECURSIVE createMembers(_, _, _)
createMembers(o, f, i) ==
    IF i > Len(o.members) THEN [err |-> "nil", entries |-> << >>]
    ELSE Only({
        IF m.err # "nil" THEN m
        ELSE Only({[err |-> rest.err, entries |-> m.entries \o rest.entries]
                   : rest \in {createMembers(o, f, i + 1)}})
      : m \in {addLocalPath(f, o.members[i], o.chdir, o.exclude)}})

runCreate(o, f) == createMembers(o, f, 1)

\* Run in Create mode, as a whole: opening the archive for writing may fail;
\* the members are walked and written, and the writers closed.
RunCreate ==
    /\ pc = "create"
    /\ \E openErr \in {"nil", "io"} :
         IF openErr # "nil"
         THEN /\ result' = classifyResult(openErr, 0)
              /\ pc' = "returned"
              /\ UNCHANGED archive
         ELSE \E c \in {runCreate(opts, fs)} :
              /\ archive' = c.entries
              /\ result' = classifyResult(c.err, 0)
              /\ pc' = IF c.err = "nil" THEN "created" ELSE "returned"
    /\ UNCHANGED <<opts, pos, fs, stdout, warnings, done, fnVars, up, objects, stderr, ctx, cr>>

\* The options of the extraction of the archive just created: into BaseDir,
\* with same-permissions on.
ExtractOf(o) ==
    [o EXCEPT !.mode = "x", !.members = << >>, !.chdir = BaseDir,
              !.samePermissions = "true"]

\* The second invocation: Run in Extract mode on the archive created.
RunAgain ==
    /\ pc = "created"
    /\ opts' = ExtractOf(opts)
    /\ result' = NoResult
    /\ pc' = "call"
    /\ UNCHANGED <<archive, pos, fs, stdout, warnings, done, fnVars, up, objects, stderr, ctx, cr>>

\* -------------------------------------------------------- SpecRoundTrip

SrcDir == <<Slash, "s">>
SrcA == SrcDir \o <<Slash, "a">>
SrcP == SrcDir \o <<Slash, "p">>
SrcPB == SrcP \o <<Slash, "b">>
SrcHidden == SrcP \o <<Slash, Dot, "e">>
SrcSecret == SrcHidden \o <<Slash, "s">>
SrcZ == SrcDir \o <<Slash, "z">>

\* The source trees: a file a of either mode or none; a directory p, empty,
\* or with a file b, a directory .e, a file .e/s in it; a symbolic link z to
\* a, to p, to a path above the tree, or none. The destination is empty.
SrcFs(a, p, z) ==
    LET base == (SrcDir :> DirNode(Perm755)) @@ (BaseDir :> DirNode(Perm755))
        dirP == SrcP :> DirNode(Perm755)
        fileB == SrcPB :> FileNode(Perm644, <<3>>, 2)
        hidden == SrcHidden :> DirNode(Perm755)
        secret == SrcSecret :> FileNode(Perm600, <<4>>, 3)
        withA == CASE a = "none" -> base
                   [] a = "600" -> base @@ (SrcA :> FileNode(Perm600, <<1, 2>>, 1))
                   [] a = "644" -> base @@ (SrcA :> FileNode(Perm644, <<1, 2>>, 1))
        withP == CASE p = "none" -> withA
                   [] p = "empty" -> withA @@ dirP
                   [] p = "b" -> withA @@ dirP @@ fileB
                   [] p = "hidden" -> withA @@ dirP @@ hidden
                   [] p = "secret" -> withA @@ dirP @@ hidden @@ secret
                   [] p = "all" -> withA @@ dirP @@ fileB @@ hidden @@ secret
    IN  CASE z = "none" -> withP
          [] z = "a" -> withP @@ (SrcZ :> LinkNode(<<"a">>))
          [] z = "p" -> withP @@ (SrcZ :> LinkNode(<<"p">>))
          [] z = "up" -> withP @@ (SrcZ :> LinkNode(<<Dot, Dot, Slash, "x">>))

SrcTrees ==
    {SrcFs(a, p, z) : a \in {"none", "600", "644"},
                      p \in {"none", "empty", "b", "hidden", "secret", "all"},
                      z \in {"none", "a", "p", "up"}}

HiddenName == <<"p", Slash, Dot, "e">>
HiddenPattern == HiddenName \o <<Slash, "*", "*">>

CreateOpts ==
    [mode : {"c"}, members : {<< DotStr >>}, wildcards : {FALSE}, strip : {0},
     exclude : {<< >>, <<HiddenPattern>>, <<HiddenName>>},
     toStdout : {FALSE}, verbose : {FALSE}, chdir : {SrcDir},
     isRoot : {FALSE}, sameOwner : {"unset"}, samePermissions : {"unset"},
     numericOwner : {FALSE}]

InitRoundTrip ==
    /\ opts \in CreateOpts
    /\ fs \in SrcTrees
    /\ call = [src |-> fs]
    /\ archive = << >>
    /\ pos = 1
    /\ stdout = << >>
    /\ warnings = 0
    /\ result = NoResult
    /\ pc = "create"
    /\ done = << >>
    /\ up = NoRet
    /\ objects = NoObjects
    /\ stderr = << >>
    /\ ctx = "live"
    /\ cr = NoRet
    /\ ret = NoRet

NextRoundTrip ==
    RunCreate \/ RunAgain \/ RunStart \/ ScanEOF \/ ScanReadError \/ ScanEntry

SpecRoundTrip == InitRoundTrip /\ [][NextRoundTrip]_vars

\* The paths of a tree, relative to its root (the empty one is the root).
RelPaths(f, root) ==
    {SubSeq(q, Len(root) + 1, Len(q)) : q \in {q \in DOMAIN f : HasPrefix(q, root)}}

\* Two nodes are alike: the same type, and the same bytes and permission
\* bits, the same permission bits, or the same target.
SameNode(n, m) ==
    /\ n.kind = m.kind
    /\ n.kind = "file" => (n.data = m.data /\ n.perm = m.perm)
    /\ n.kind = "dir" => n.perm = m.perm
    /\ n.kind = "symlink" => n.target = m.target

\* The extraction of the archive created has returned Success.
RoundTripDone ==
    pc = "returned" /\ opts.mode = "x" /\ result.exit = ExitSuccess

\* C5: after Create of a tree of regular files, directories and symbolic
\* links and a successful Extract of the archive into an empty directory with
\* same-permissions on, the extracted tree has the paths of the source tree,
\* each of the same type, with the same bytes, permission bits and target.
C5_RoundTripReproducesTree ==
    (RoundTripDone /\ opts.exclude = << >>)
    => /\ RelPaths(fs, BaseDir) = RelPaths(call.src, SrcDir)
       /\ \A r \in RelPaths(call.src, SrcDir) :
             SameNode(NodeAt(call.src, SrcDir \o r), NodeAt(fs, BaseDir \o r))

\* C6: creating from a tree that holds p/.e/s with the exclude pattern
\* p/.e/** writes no entry below p/.e, and extracting the archive makes no
\* directory p/.e.
C6_ExcludedDirectoryAbsent ==
    (opts.exclude = <<HiddenPattern>> /\ SrcSecret \in DOMAIN call.src)
    => /\ \A i \in 1..Len(archive) :
             ~HasPrefix(archive[i].name, HiddenName \o <<Slash>>)
       /\ RoundTripDone => NodeAt(fs, BaseDir \o <<Slash>> \o HiddenName).kind = "none"

\* ---------------------------------------------------------- SpecUpload

\* A Create whose archive is an object-store reference. The producer is
\* runCreate, writing tar blocks through the compressor into the pipe; the
\* upload task is the goroutine of Store.OpenWriter, reading the pipe.
\* pc is the producer's position:
\*   "call", "newWriter", "abortClose", "abortWait", "excludes", "members",
\*   "w:member", "twClose", "w:trailer", "cwClose", "w:flush", "pwClose",
\*   "wait", "returned"; at a "w:" position it is blocked in PipeWriter.Write.
\* up.upc is the upload task's position:
\*   "none" (not started), "uploading", "closePr", "send", "closeCh", "done".

\* What a receive from errCh yields: whether it can proceed, and the error.
\* A buffered value is received before the closed channel's zero value.
ChanRecvNoWait(u) ==
    [ready |-> TRUE, err |-> IF Len(u.errCh) > 0 THEN Head(u.errCh) ELSE "nil"]

ChanRecv(u) ==
    [ready |-> Len(u.errCh) > 0 \/ u.chClosed,
     err |-> IF Len(u.errCh) > 0 THEN Head(u.errCh) ELSE "nil"]

UploadOthers ==
    UNCHANGED <<call, ret, opts, archive, pos, fs, stdout, warnings, done, objects, stderr, ctx, cr>>

InitUpload ==
    /\ up \in [keyOk : BOOLEAN, levelOk : BOOLEAN, codec : {"none", "gzip"},
               todo : 0..MaxChunks, pipe : {"empty"}, wClosed : {FALSE},
               rClosed : {FALSE}, got : {0}, errCh : {<< >>}, chClosed : {FALSE},
               upc : {"none"}, upErr : {"running"}, retErr : {"nil"},
               wErr : {FALSE}, closeFirst : {"nil"}, closeErr : {"unset"}]
    /\ pc = "call"
    /\ result = NoResult
    /\ opts = NoRet
    /\ archive = << >>
    /\ pos = 1
    /\ fs = << >>
    /\ stdout = << >>
    /\ warnings = 0
    /\ done = << >>
    /\ objects = NoObjects
    /\ stderr = << >>
    /\ ctx = "live"
    /\ cr = NoRet
    /\ call = NoRet
    /\ ret = NoRet

\* runCreate to openArchiveWriter: an empty key is refused before anything is
\* started; otherwise Store.OpenWriter makes the pipe and errCh and starts the
\* upload task.
CreateOpen ==
    /\ pc = "call"
    /\ IF ~up.keyOk
       THEN /\ result' = classifyResult("archive object key cannot be empty", 0)
            /\ pc' = "returned"
            /\ UNCHANGED up
       ELSE /\ up' = [up EXCEPT !.upc = "uploading"]
            /\ pc' = "newWriter"
            /\ UNCHANGED result
    /\ UploadOthers

\* compress.NewWriter: a level out of range is an error, and runCreate closes
\* the archive writer before it returns it.
CreateNewWriter ==
    /\ pc = "newWriter"
    /\ pc' = IF up.levelOk THEN "excludes" ELSE "abortClose"
    /\ UNCHANGED <<up, result>>
    /\ UploadOthers

\* uploadWriter.Close, first half: pw.Close().
CreateClosePipe ==
    /\ pc \in {"abortClose", "pwClose"}
    /\ up' = [up EXCEPT !.wClosed = TRUE]
    /\ pc' = IF pc = "abortClose" THEN "abortWait" ELSE "wait"
    /\ UNCHANGED result
    /\ UploadOthers

\* uploadWriter.Close, second half, on the error path of compress.NewWriter:
\* the receive from errCh, its value dropped, then return err.
CreateAbortReturn ==
    /\ pc = "abortWait"
    /\ ChanRecv(up).ready
    /\ up' = [up EXCEPT !.errCh = IF Len(@) > 0 THEN Tail(@) ELSE @,
                        !.closeErr = ChanRecv(up).err]
    /\ result' = classifyResult("compression level must be between 1 and 9", 0)
    /\ pc' = "returned"
    /\ UploadOthers

\* loadExcludePatterns: reading an exclude file may fail; the deferred closes
\* run on the way out.
CreateExcludes ==
    /\ pc = "excludes"
    /\ \E e \in {"nil", "io"} :
         /\ up' = [up EXCEPT !.retErr = e]
         /\ pc' = IF e = "nil" THEN "members" ELSE "twClose"
    /\ UNCHANGED result
    /\ UploadOthers

\* A write through the compressor: gzip may keep the bytes in its buffer, and
\* bytes that go on to the pipe find it closed by the reader or wait in it.
\* [up, pc], where (ok, fail) are the positions after a buffered write and
\* after a failed one, and blocked is the position while waiting in the pipe.
WriteThrough(u, through, blocked, ok, failed) ==
    IF ~through THEN [up |-> u, pc |-> ok, failed |-> FALSE]
    ELSE IF u.rClosed THEN [up |-> [u EXCEPT !.wErr = TRUE], pc |-> failed, failed |-> TRUE]
    ELSE [up |-> [u EXCEPT !.pipe = "full"], pc |-> blocked, failed |-> FALSE]

\* Whether a write may stay in the compressor's buffer.
Throughs(u) == IF u.codec = "gzip" THEN BOOLEAN ELSE {TRUE}

\* The member loop: with no member left it ends; a member may fail on its own
\* (a file that cannot be read); otherwise its blocks are written.
CreateMember ==
    /\ pc = "members"
    /\ \/ /\ up.todo = 0
          /\ pc' = "twClose"
          /\ UNCHANGED up
       \/ /\ up.todo > 0
          /\ up' = [up EXCEPT !.retErr = "io"]
          /\ pc' = "twClose"
       \/ /\ up.todo > 0
          /\ \E through \in Throughs(up) :
               \E w \in {WriteThrough([up EXCEPT !.todo = @ - 1], through,
                                       "w:member", "members", "twClose")} :
                 /\ up' = IF w.failed THEN [w.up EXCEPT !.retErr = "closed pipe"] ELSE w.up
                 /\ pc' = w.pc
    /\ UNCHANGED result
    /\ UploadOthers

\* The deferred tw.Close(): after a failed write it returns that error and
\* writes nothing; otherwise it writes the trailer.
CreateTarClose ==
    /\ pc = "twClose"
    /\ IF up.wErr
       THEN /\ pc' = "cwClose"
            /\ UNCHANGED up
       ELSE \E through \in Throughs(up) :
              \E w \in {WriteThrough(up, through, "w:trailer", "cwClose", "cwClose")} :
                /\ up' = IF w.failed /\ up.retErr = "nil"
                          THEN [w.up EXCEPT !.retErr = "closing tar writer"] ELSE w.up
                /\ pc' = w.pc
    /\ UNCHANGED result
    /\ UploadOthers

\* The deferred cw.Close(). With no compressor cw is the archive writer itself;
\* stackedWriteCloser.Close closes the compressor first, which writes what it
\* holds, or returns the error of an earlier write.
CreateCompressorClose ==
    /\ pc = "cwClose"
    /\ IF up.codec = "none"
       THEN /\ pc' = "pwClose"
            /\ UNCHANGED up
       ELSE IF up.wErr
       THEN /\ up' = [up EXCEPT !.closeFirst = "closed pipe"]
            /\ pc' = "pwClose"
       ELSE \E w \in {WriteThrough(up, TRUE, "w:flush", "pwClose", "pwClose")} :
              /\ up' = IF w.failed THEN [w.up EXCEPT !.closeFirst = "closed pipe"] ELSE w.up
              /\ pc' = w.pc
    /\ UNCHANGED result
    /\ UploadOthers

\* PipeWriter.Write returns: the reader took the bytes, or closed its end.
CreateWriteReturns ==
    /\ pc \in {"w:member", "w:trailer", "w:flush"}
    /\ \/ /\ up.pipe = "empty"
          /\ pc' = CASE pc = "w:member" -> "members"
                      [] pc = "w:trailer" -> "cwClose"
                      [] pc = "w:flush" -> "pwClose"
          /\ UNCHANGED up
       \/ /\ up.pipe = "full"
          /\ up.rClosed
          /\ up' = [up EXCEPT
                      !.pipe = "empty",
                      !.wErr = TRUE,
                      !.retErr = IF @ # "nil" THEN @
                                 ELSE CASE pc = "w:member" -> "closed pipe"
                                        [] pc = "w:trailer" -> "closing tar writer"
                                        [] pc = "w:flush" -> "nil",
                      !.closeFirst = IF pc = "w:flush" THEN "closed pipe" ELSE @]
          /\ pc' = CASE pc = "w:member" -> "twClose"
                      [] pc = "w:trailer" -> "cwClose"
                      [] pc = "w:flush" -> "pwClose"
    /\ UNCHANGED result
    /\ UploadOthers

\* uploadWriter.Close, second half: the receive from errCh; then the deferred
\* function of runCreate and Run's classifyResult.
CreateReturn ==
    /\ pc = "wait"
    /\ \E r \in {ChanRecv(up)} :
         /\ r.ready
         /\ LET cerr == IF up.closeFirst # "nil" THEN up.closeFirst ELSE r.err
                retErr == IF cerr # "nil" /\ up.retErr = "nil"
                          THEN "closing archive" ELSE up.retErr
            IN  /\ up' = [up EXCEPT !.errCh = IF Len(@) > 0 THEN Tail(@) ELSE @,
                                    !.retErr = retErr,
                                    !.closeErr = r.err]
                /\ result' = classifyResult(retErr, 0)
    /\ pc' = "returned"
    /\ UploadOthers

\* UploadObject reads what is in the pipe.
UploadRead ==
    /\ up.upc = "uploading"
    /\ up.pipe = "full"
    /\ up' = [up EXCEPT !.pipe = "empty", !.got = @ + 1]
    /\ UNCHANGED <<pc, result>>
    /\ UploadOthers

\* UploadObject reads the end of the stream and returns: the object is stored,
\* or the last request failed.
UploadEOF ==
    /\ up.upc = "uploading"
    /\ up.pipe = "empty"
    /\ up.wClosed
    /\ \E e \in {"nil", "s3"} : up' = [up EXCEPT !.upErr = e, !.upc = "closePr"]
    /\ UNCHANGED <<pc, result>>
    /\ UploadOthers

\* UploadObject fails before the end of the stream.
UploadFail ==
    /\ up.upc = "uploading"
    /\ up' = [up EXCEPT !.upErr = "s3", !.upc = "closePr"]
    /\ UNCHANGED <<pc, result>>
    /\ UploadOthers

\* The upload task without its pr.Close(): errCh <- err, close(errCh).
UploadFinishNoClose ==
    /\ \/ /\ up.upc = "closePr"
          /\ up' = [up EXCEPT !.upc = "send"]
       \/ /\ up.upc = "send"
          /\ up' = [up EXCEPT !.errCh = Append(@, up.upErr), !.upc = "closeCh"]
       \/ /\ up.upc = "closeCh"
          /\ up' = [up EXCEPT !.chClosed = TRUE, !.upc = "done"]
    /\ UNCHANGED <<pc, result>>
    /\ UploadOthers

\* The upload task after UploadObject: pr.Close(), errCh <- err, close(errCh).
UploadFinish ==
    /\ \/ /\ up.upc = "closePr"
          /\ up' = [up EXCEPT !.rClosed = TRUE, !.upc = "send"]
       \/ /\ up.upc = "send"
          /\ up' = [up EXCEPT !.errCh = Append(@, up.upErr), !.upc = "closeCh"]
       \/ /\ up.upc = "closeCh"
          /\ up' = [up EXCEPT !.chClosed = TRUE, !.upc = "done"]
    /\ UNCHANGED <<pc, result>>
    /\ UploadOthers

NextUpload ==
    \/ CreateOpen \/ CreateNewWriter \/ CreateClosePipe \/ CreateAbortReturn
    \/ CreateExcludes \/ CreateMember \/ CreateTarClose \/ CreateCompressorClose
    \/ CreateWriteReturns \/ CreateReturn
    \/ UploadRead \/ UploadEOF \/ UploadFail \/ UploadFinish

SpecUpload == InitUpload /\ [][NextUpload]_vars

\* The two goroutines, each scheduled again and again while it can run: the
\* producer (runCreate, through Write and Close of the writer) and the upload
\* task, whose UploadObject reads what is written, ends at the end of the
\* stream, or fails.
Producer ==
    \/ CreateOpen \/ CreateNewWriter \/ CreateClosePipe \/ CreateAbortReturn
    \/ CreateExcludes \/ CreateMember \/ CreateTarClose \/ CreateCompressorClose
    \/ CreateWriteReturns \/ CreateReturn
UploadTask == UploadRead \/ UploadEOF \/ UploadFail \/ UploadFinish

SpecUploadFair == SpecUpload /\ WF_vars(Producer) /\ WF_vars(UploadTask)

\* The positions at which the producer is inside PipeWriter.Write.
InWrite == pc \in {"w:member", "w:trailer", "w:flush"}

\* C28: under fair scheduling of the producer and the upload task, every write
\* to the pipe returns, the run gets through Close and returns, and what
\* Close received from the upload task is the error UploadObject returned.
C28_WriterTerminates ==
    /\ [](InWrite => <>(~InWrite))
    /\ <>(pc = "returned")
    /\ [](up.closeErr # "unset" => up.closeErr = up.upErr)

\* C28's case: UploadObject failed before it read anything, a write found the
\* pipe closed, and Close returned the upload's error.
C28_Witness ==
    /\ pc = "returned"
    /\ up.got = 0
    /\ up.wErr
    /\ up.upErr = "s3"
    /\ up.closeErr = "s3"

\* C1: in every interleaving of runCreate and the upload task, when Run has
\* returned and an upload task was started, UploadObject has returned; Run
\* returns Success only if an upload task was started and UploadObject
\* returned no error; and if UploadObject returned an error, Run returns Fatal.
C1_SuccessOnlyAfterUpload ==
    pc = "returned" =>
        /\ up.upc # "none" => up.upErr # "running"
        /\ result.exit = ExitSuccess => (up.upc # "none" /\ up.upErr = "nil")
        /\ up.upErr = "s3" => result.exit = ExitFatal

\* C1's case: a Create returned Success after the upload task took every write
\* and UploadObject returned without error.
C1_Witness ==
    /\ pc = "returned"
    /\ result.exit = ExitSuccess
    /\ up.got > 1
    /\ up.upErr = "nil"

\* ------------------------------------------------------------- SpecRun

RunModes == {"c", "x", "t", "", "A"}
RunErrs == {"nil", "io", "refusing to write outside target directory"}

\* Run(opts): the mode switch over what the operation returned.
Run(mode, w, err) ==
    IF mode \in {"c", "x", "t"} THEN classifyResult(err, w)
    ELSE [exit |-> ExitFatal, err |-> "unsupported mode"]

InitRun ==
    /\ call \in [mode : RunModes, err : RunErrs, warnings : 0..MaxWarnings]
    /\ ret = NoRet
    /\ IdleRun

RunCall ==
    /\ ret = NoRet
    /\ ret' = [kind |-> "run"] @@ Run(call.mode, call.warnings, call.err)
    /\ UNCHANGED <<call, runVars, up, objects, stderr, ctx, cr>>

NextRun == RunCall

SpecRun == InitRun /\ [][NextRun]_vars

\* C10: the result is Fatal exactly when the operation returned an error or
\* the mode is unsupported, and carries that error unchanged; Warning exactly
\* when there was no error and at least one warning; Success otherwise. An
\* error wins over any number of warnings.
C10_ExitClassification ==
    ret # NoRet =>
        LET supported == call.mode \in {"c", "x", "t"}
            failed == call.err # "nil"
        IN  /\ ret.exit \in {ExitSuccess, ExitWarning, ExitFatal}
            /\ (ret.exit = ExitFatal) = (~supported \/ failed)
            /\ (supported /\ failed) => ret.err = call.err
            /\ ~supported => ret.err = "unsupported mode"
            /\ (ret.exit = ExitWarning) = (supported /\ ~failed /\ call.warnings > 0)
            /\ (ret.exit = ExitSuccess) = (supported /\ ~failed /\ call.warnings = 0)
            /\ ret.exit # ExitFatal => ret.err = "nil"

\* C10's case: an operation that recorded warnings and then failed.
C10_Witness ==
    /\ call.mode = "x"
    /\ call.err = "io"
    /\ call.warnings > 0
    /\ ret # NoRet
    /\ ret.exit = ExitFatal


\* ---------------------------------------------------------- SpecExtractS3

\* How far on each side of the metadata limit the drawn user names reach.
MaxOver == 1

\* A header with its owner and time.
OwnedHdr(name, typeflag, linkname, mode, data, uname) ==
    [name |-> name, typeflag |-> typeflag, linkname |-> linkname, mode |-> mode,
     data |-> data, uid |-> 0, gid |-> 0, mtime |-> 0, uname |-> uname, gname |-> EmptyStr]

\* A user name of n characters.
LongName(n) == [i \in 1..n |-> "u"]

\* The longest user name with which the metadata of header h is within the limit.
FitLen(h) ==
    MetaLimit - MetaTotal(HeaderMeta([h EXCEPT !.uname = EmptyStr])) - Len(KeyUname)

\* Headers with user names at, below and above the limit, and one without.
AroundLimit(h) ==
    {h} \cup {[h EXCEPT !.uname = LongName(FitLen(h) + d)] : d \in (0 - MaxOver)..MaxOver}

\* The entries extracted to the object store: a regular file with user names
\* around the limit, one in a directory, the entry "./", a directory and a
\* symbolic link over the limit, and a file whose name begins with two slashes.
S3Entries ==
    AroundLimit(OwnedHdr(<<"a">>, "reg", EmptyStr, Perm644, <<1>>, EmptyStr))
    \cup {OwnedHdr(<<"d", Slash, "a">>, "reg", EmptyStr, Perm644, <<2>>, EmptyStr),
          OwnedHdr(<<Dot, Slash>>, "reg", EmptyStr, Perm644, <<3>>, LongName(MetaLimit)),
          OwnedHdr(<<"d">>, "dir", EmptyStr, Perm755, << >>, LongName(MetaLimit)),
          OwnedHdr(<<"l">>, "symlink", <<"a">>, Perm777, << >>, LongName(MetaLimit)),
          OwnedHdr(<<Slash, Slash, "a">>, "reg", EmptyStr, Perm644, <<4>>, EmptyStr)}

\* The targets: a bucket, a prefix in it, the same by ARN, and a URI without
\* a bucket.
S3Targets ==
    {S3Scheme \o <<"b">>, S3Scheme \o <<"b", Slash, "k", Slash>>,
     ArnPrefix \o <<"w">> \o Colon \o S3Service \o TripleColon \o <<"b", Slash, "k">>,
     S3Scheme}

S3Opts ==
    [mode : {"x"}, members : {<< >>}, wildcards : {FALSE}, strip : 0..MaxRunStrip,
     toStdout : {FALSE}, verbose : {FALSE}, chdir : S3Targets,
     isRoot : {FALSE}, sameOwner : {"unset"}, samePermissions : {"unset"},
     numericOwner : {FALSE}]

InitExtractS3 ==
    /\ opts \in S3Opts
    /\ archive \in SeqsUpTo(S3Entries, MaxEntries)
    /\ pos = 1
    /\ fs = InitFs
    /\ stdout = << >>
    /\ warnings = 0
    /\ result = NoResult
    /\ pc = "call"
    /\ done = << >>
    /\ up = NoRet
    /\ objects = NoObjects
    /\ stderr = << >>
    /\ ctx = "live"
    /\ cr = NoRet
    /\ call = NoRet
    /\ ret = NoRet

NextExtractS3 == RunStart \/ ScanEOF \/ ScanReadError \/ ScanEntry

SpecExtractS3 == InitExtractS3 /\ [][NextExtractS3]_vars

\* The object store and standard error as entry i left them.
ObjectsAfter(i) == IF i < Len(done) THEN done[i + 1].objBefore ELSE objects
StderrAfter(i) == IF i < Len(done) THEN done[i + 1].errBefore ELSE stderr

\* The name of the object of an entry, and where it is kept.
ObjectName(e) == TrimPrefix(EffectiveName(e), <<Dot, Slash>>)
ObjectAt(e) == <<extractTarget(opts).bucket,
                 JoinS3Prefix(extractTarget(opts).key, ObjectName(e))>>

\* A regular entry that reaches the object store under a name.
RegularToStore(e) ==
    /\ Dispatched(e)
    /\ e.hdr.typeflag = "reg"
    /\ ObjectName(e) # EmptyStr

\* C11: a regular entry extracted to the object store whose header metadata is
\* over the limit (the lengths of its keys and values sum to more than 1500)
\* counts exactly one warning and prints one diagnostic naming it; unless the
\* upload itself fails its object is stored with its data; metadata within the
\* limit counts no warning; and a run that returns without an error after such
\* an entry exits Warning.
C11_OversizeMetadataWarns ==
    \A i \in 1..Len(done) :
        RegularToStore(done[i]) =>
            IF MetaTotal(HeaderMeta(done[i].hdr)) > MetaLimit
            THEN /\ done[i].w = 1
                 /\ StderrAfter(i) = Append(done[i].errBefore,
                                            MetaWarning(EffectiveName(done[i])))
                 /\ done[i].err = "nil" =>
                        /\ ObjectAt(done[i]) \in DOMAIN ObjectsAfter(i)
                        /\ ObjectsAfter(i)[ObjectAt(done[i])].data = done[i].hdr.data
                 /\ (pc = "returned" /\ result.err = "nil") => result.exit = ExitWarning
            ELSE /\ done[i].w = 0
                 /\ StderrAfter(i) = done[i].errBefore

\* C11's case: a file exactly at the limit was uploaded without a warning, one
\* a character over it was uploaded with one, and the run returned.
C11_Witness ==
    /\ Len(done) = 2
    /\ RegularToStore(done[1]) /\ RegularToStore(done[2])
    /\ MetaTotal(HeaderMeta(done[1].hdr)) = MetaLimit
    /\ MetaTotal(HeaderMeta(done[2].hdr)) = MetaLimit + 1
    /\ done[2].err = "nil"
    /\ ObjectAt(done[2]) \in DOMAIN objects
    /\ pc = "returned"
    /\ result.exit = ExitWarning

\* A prefix and a name joined as a key without a leading slash and with
\* exactly one slash between a non-empty prefix and the name.
RECURSIVE TrimSlashes(_)
TrimSlashes(s) ==
    IF Len(s) > 0 /\ s[1] = Slash THEN TrimSlashes(Tail(s))
    ELSE IF Len(s) > 0 /\ s[Len(s)] = Slash THEN TrimSlashes(SubSeq(s, 1, Len(s) - 1))
    ELSE s
RECURSIVE TrimLeadingSlashes(_)
TrimLeadingSlashes(s) ==
    IF Len(s) > 0 /\ s[1] = Slash THEN TrimLeadingSlashes(Tail(s)) ELSE s
OneSlashJoin(prefix, name) ==
    LET p == TrimSlashes(prefix)
        n == TrimLeadingSlashes(name)
    IN  IF p = EmptyStr THEN n ELSE IF n = EmptyStr THEN p ELSE p \o <<Slash>> \o n

\* What an entry that reached extractToS3 without an error did to the store,
\* its object being expected under key.
StoredAs(i, key) ==
    LET e == done[i]
        at == <<extractTarget(opts).bucket, key>>
        others == DOMAIN e.objBefore \ {at}
        after == ObjectsAfter(i)
    IN  IF ObjectName(e) = EmptyStr \/ e.hdr.typeflag = "dir"
        THEN after = e.objBefore
        ELSE /\ DOMAIN after = DOMAIN e.objBefore \cup {at}
             /\ \A o \in others : after[o] = e.objBefore[o]
             /\ IF e.hdr.typeflag = "reg"
                THEN after[at].data = e.hdr.data
                ELSE /\ after[at].data = EmptyStr
                     /\ after[at].meta[KeyType] = Itoa(TypeflagByte(e.hdr.typeflag))

\* Every entry stored its object, if any, at the key JoinS3Prefix gives.
StoredAtJoinedKey ==
    \A i \in 1..Len(done) :
        (Dispatched(done[i]) /\ done[i].err = "nil") =>
            StoredAs(i, JoinS3Prefix(extractTarget(opts).key, ObjectName(done[i])))

\* C22 as stated: an entry without a name and a directory make no object; a
\* regular entry makes exactly one object holding its body, any other entry
\* exactly one empty object carrying its type code, at the key that joins
\* prefix and name without a leading slash and with exactly one slash between
\* a non-empty prefix and the name.
C22_OneObjectPerEntry ==
    \A i \in 1..Len(done) :
        (Dispatched(done[i]) /\ done[i].err = "nil") =>
            StoredAs(i, OneSlashJoin(extractTarget(opts).key, ObjectName(done[i])))


\* --------------------------------------------------------------- compress

Codecs == {"gzip", "bzip2", "xz", "zstd", "lz4"}

\* compress.FromString: anything but a known name is Auto.
FromString(v) == IF v \in Codecs \cup {"none"} THEN v ELSE "auto"

\* A *int: {} for nil, {n} for a pointer to n.
NoLevel == {}
MinLevel == 1
MaxLevel == 9

\* normalizeLevel with the lowest level refused.
normalizeLevelAboveOne(level) ==
    IF level = NoLevel THEN [err |-> "nil", hasLevel |-> FALSE, level |-> 0]
    ELSE Only({
        IF n <= MinLevel \/ n > MaxLevel
        THEN [err |-> "compression level must be between 1 and 9",
              hasLevel |-> FALSE, level |-> 0]
        ELSE [err |-> "nil", hasLevel |-> TRUE, level |-> n]
      : n \in level})

\* normalizeLevel(level)
normalizeLevel(level) ==
    IF level = NoLevel THEN [err |-> "nil", hasLevel |-> FALSE, level |-> 0]
    ELSE Only({
        IF n < MinLevel \/ n > MaxLevel
        THEN [err |-> "compression level must be between 1 and 9",
              hasLevel |-> FALSE, level |-> 0]
        ELSE [err |-> "nil", hasLevel |-> TRUE, level |-> n]
      : n \in level})

\* NewWriter(dst, t, opts): [err, codec, level]. No writer is made on an error;
\* Auto and None give dst itself (codec "none"); a codec gives a stacked
\* writer at the level asked for, or at the codec's default ({}).
NoWriter == [err |-> "nil", codec |-> "nil", level |-> NoLevel]
NewWriter(t, level) ==
    Only({
        IF n.err # "nil" THEN [NoWriter EXCEPT !.err = n.err]
        ELSE IF t \in {"auto", "none"} THEN [NoWriter EXCEPT !.codec = "none"]
        ELSE IF t \in Codecs
        THEN [NoWriter EXCEPT !.codec = t,
                              !.level = IF n.hasLevel THEN {n.level} ELSE NoLevel]
        ELSE [NoWriter EXCEPT !.err = "unsupported compression type"]
      : n \in {normalizeLevel(level)}})

\* ------------------------------------------------------- create, in steps

\* The error of a cancelled context.
Canceled == "context canceled"

\* The context is cancelled: a signal arrives at any moment of the run.
Cancel ==
    /\ ctx = "live"
    /\ pc # "returned"
    /\ ctx' = "done"
    /\ UNCHANGED <<call, ret, opts, archive, pos, fs, stdout, warnings, result, pc, done,
                   up, objects, stderr, cr>>

\* One event of the I/O of a Create, with the context as it was.
Event(op, what, err) == [op |-> op, what |-> what, err |-> err, ctx |-> ctx]

\* os.Create's permission bits.
Perm666 == {"ur", "uw", "gr", "gw", "or", "ow"}

\* openArchiveWriter(ref): [err, fs]. A local file is created or truncated;
\* standard output needs nothing; an object needs a key.
openArchiveWriter(ref, f, fault) ==
    IF ref.kind = "local"
    THEN Only({ IF fault \/ ~w.ok THEN [err |-> "io", fs |-> f]
                ELSE [err |-> "nil", fs |-> w.fs]
              : w \in {WriteFile(f, ref.path, Perm666, currentUmask, << >>)} })
    ELSE IF ref.kind = "s3" /\ ref.key = EmptyStr
    THEN [err |-> "archive object key cannot be empty for -f", fs |-> f]
    ELSE [err |-> IF fault /\ ref.kind = "s3" THEN "io" ELSE "nil", fs |-> f]

\* runCreate up to its member loop: the archive reference is parsed, the
\* destination opened, the compression writer made (on its error the
\* destination is closed and the run returns), the deferred closes
\* registered, the tar writer made and the exclude patterns loaded.
RunCreateStart ==
    /\ pc = "call"
    /\ opts.mode = "c"
    /\ \E openFault \in BOOLEAN, excludeFault \in BOOLEAN :
        \E ref \in {ParseArchive(opts.archive)} :
        LET o == openArchiveWriter(ref, fs, openFault)
            cw == NewWriter(FromString(opts.compression), opts.level)
            start == [retErr |-> "nil", bodyErr |-> "nil", walk |-> << >>,
                      base |-> EmptyStr, member |-> EmptyStr, dest |-> ref,
                      codec |-> "nil", tw |-> FALSE, log |-> << >>]
        IN  IF ref.err # "nil"
            THEN /\ result' = classifyResult(ref.err, 0)
                 /\ pc' = "returned"
                 /\ cr' = [start EXCEPT !.retErr = ref.err]
                 /\ UNCHANGED fs
            ELSE IF o.err # "nil"
            THEN /\ result' = classifyResult(o.err, 0)
                 /\ pc' = "returned"
                 /\ cr' = [start EXCEPT !.retErr = o.err,
                                        !.log = <<Event("open", opts.archive, o.err)>>]
                 /\ UNCHANGED fs
            ELSE IF cw.err # "nil"
            THEN /\ result' = classifyResult(cw.err, 0)
                 /\ pc' = "returned"
                 /\ cr' = [start EXCEPT !.retErr = cw.err,
                                        !.log = <<Event("open", opts.archive, "nil"),
                                                  Event("close", "dst", "nil")>>]
                 /\ fs' = o.fs
            ELSE /\ cr' = [start EXCEPT !.codec = cw.codec, !.tw = TRUE,
                                        !.bodyErr = IF excludeFault THEN "io" ELSE "nil",
                                        !.log = <<Event("open", opts.archive, "nil")>>]
                 /\ pc' = IF excludeFault THEN "c.close" ELSE "c.member"
                 /\ fs' = o.fs
                 /\ UNCHANGED result
    /\ UNCHANGED <<call, ret, opts, archive, pos, stdout, warnings, done, up, objects,
                   stderr, ctx>>

\* What a write to the archive leaves in a local destination.
destWritten(f, ref, entries) ==
    IF ref.kind = "local"
    THEN WriteFile(f, ref.path, Perm666, currentUmask, entries).fs
    ELSE f

\* addS3Member(ref): [err, entries]. The object is read and written as a
\* regular entry named by its key.
addS3Member(ref, objs, fault) ==
    IF ref.key = EmptyStr THEN [err |-> "s3 member key cannot be empty", entries |-> << >>]
    ELSE IF fault = "open" \/ <<ref.bucket, ref.key>> \notin DOMAIN objs
    THEN [err |-> "io", entries |-> << >>]
    ELSE IF fault = "header" THEN [err |-> "io", entries |-> << >>]
    ELSE IF fault = "copy"
    THEN [err |-> "io", entries |-> <<Hdr(ref.key, "reg", EmptyStr, Perm644, << >>)>>]
    ELSE [err |-> "nil",
          entries |-> <<Hdr(ref.key, "reg", EmptyStr, Perm644,
                            objs[<<ref.bucket, ref.key>>].data)>>]

\* The faults of the writing of one entry.
WriteFaults == {"none", "open", "header", "copy"}

\* runCreate's loop, once round: the end of the members, the context, the
\* member's reference, then addS3Member as a whole or the start of
\* addLocalPath's walk (whose first Lstat may fail).
RunCreateMember ==
    /\ pc = "c.member"
    /\ IF pos > Len(opts.members)
       THEN /\ pc' = "c.close"
            /\ cr' = [cr EXCEPT !.bodyErr = "nil"]
            /\ UNCHANGED <<archive, pos, fs, stdout>>
       ELSE IF ctx = "done"
       THEN /\ cr' = [cr EXCEPT !.bodyErr = Canceled]
            /\ pc' = "c.close"
            /\ UNCHANGED <<archive, pos, fs, stdout>>
       ELSE \E fault \in WriteFaults :
            \E ref \in {ParseMember(opts.members[pos])} :
            IF ref.err # "nil"
            THEN /\ cr' = [cr EXCEPT !.bodyErr = ref.err]
                 /\ pc' = "c.close"
                 /\ UNCHANGED <<archive, pos, fs, stdout>>
            ELSE IF ref.kind = "s3"
            THEN IF matchExclude(opts.exclude, ref.key)
                 THEN /\ pos' = pos + 1
                      /\ UNCHANGED <<cr, archive, pc, fs, stdout>>
                 ELSE \E a \in {addS3Member(ref, objects, fault)} :
                      /\ archive' = archive \o a.entries
                      /\ fs' = destWritten(fs, cr.dest, archive \o a.entries)
                      /\ stdout' = IF opts.verbose /\ a.err = "nil"
                                   THEN Append(stdout, ref.key) ELSE stdout
                      /\ cr' = [cr EXCEPT !.bodyErr = a.err,
                                          !.log = Append(@, Event("member",
                                                                  opts.members[pos], a.err))]
                      /\ pos' = IF a.err = "nil" THEN pos + 1 ELSE pos
                      /\ pc' = IF a.err = "nil" THEN pc ELSE "c.close"
            ELSE LET basePath == IF opts.chdir # EmptyStr
                                 THEN Join(opts.chdir, opts.members[pos])
                                 ELSE opts.members[pos]
                 IN  IF Lstat(fs, basePath).kind = "none"
                     THEN /\ cr' = [cr EXCEPT !.bodyErr = "io",
                                              !.log = Append(@, Event("member",
                                                                      opts.members[pos], "io"))]
                          /\ pc' = "c.close"
                          /\ UNCHANGED <<archive, pos, fs, stdout>>
                     ELSE /\ cr' = [cr EXCEPT !.walk = <<basePath>>, !.base = basePath,
                                              !.member = Clean(opts.members[pos]),
                                              !.log = Append(@, Event("member",
                                                                      opts.members[pos], "nil"))]
                          /\ pc' = "c.walk"
                          /\ UNCHANGED <<archive, pos, fs, stdout>>
    /\ UNCHANGED <<call, ret, opts, warnings, result, done, up, objects, stderr, ctx>>

\* The callback of addLocalPath on the next path of the walk: the context,
\* the exclusion, the header and the body; a directory's names are walked
\* next, in order. After the last path the loop of runCreate goes on.
RunCreateWalk ==
    /\ pc = "c.walk"
    /\ \E fault \in WriteFaults :
        LET current == Head(cr.walk)
            rel == Rel(cr.base, current).path
            archiveName == IF rel = DotStr THEN cr.member ELSE Join(cr.member, rel)
            st == Lstat(fs, current)
            excluded == matchExclude(opts.exclude, archiveName)
            failed == ~excluded /\ (fault = "header" \/ (st.kind = "file" /\ fault # "none"))
            written == IF excluded \/ fault = "header" THEN << >>
                       ELSE IF failed
                       THEN <<[fileHeader(st, archiveName) EXCEPT !.data = << >>]>>
                       ELSE <<fileHeader(st, archiveName)>>
            below == IF st.kind = "dir" /\ ~excluded
                     THEN [i \in 1..Len(ReadDir(fs, current)) |->
                              current \o <<Slash>> \o ReadDir(fs, current)[i]]
                     ELSE << >>
            rest == below \o Tail(cr.walk)
        IN  IF ctx = "done"
            THEN /\ cr' = [cr EXCEPT !.bodyErr = Canceled]
                 /\ pc' = "c.close"
                 /\ UNCHANGED <<archive, pos, fs, stdout>>
            ELSE /\ archive' = archive \o written
                 /\ stdout' = IF opts.verbose /\ ~excluded /\ ~failed
                              THEN Append(stdout, archiveName) ELSE stdout
                 /\ fs' = destWritten(fs, cr.dest, archive \o written)
                 /\ cr' = [cr EXCEPT !.walk = rest,
                                     !.bodyErr = IF failed THEN "io" ELSE "nil",
                                     !.log = Append(@, Event("path", archiveName,
                                                             IF failed THEN "io" ELSE "nil"))]
                 /\ pc' = IF failed THEN "c.close"
                          ELSE IF rest = << >> THEN "c.member" ELSE pc
                 /\ pos' = IF ~failed /\ rest = << >> THEN pos + 1 ELSE pos
    /\ UNCHANGED <<call, ret, opts, warnings, result, done, up, objects, stderr, ctx>>

\* A stacked writer that gives up at the codec's close error.
stackedCloseStopAtError(codec, codecFail, dstFail) ==
    IF codec # "none" /\ codecFail
    THEN [err |-> "codec close", log |-> <<Event("close", "codec", "codec close")>>]
    ELSE [err |-> IF dstFail THEN "dst close" ELSE "nil",
          log |-> (IF codec # "none" THEN <<Event("close", "codec", "nil")>> ELSE << >>)
                  \o <<Event("close", "dst", IF dstFail THEN "dst close" ELSE "nil")>>]

\* The close of the writer NewWriter made: a stacked writer closes its codec,
\* then the destination, and returns the first error; without a codec the
\* writer is the destination itself.
stackedClose(codec, codecFail, dstFail) ==
    LET first == IF codec # "none" /\ codecFail THEN "codec close"
                 ELSE IF dstFail THEN "dst close" ELSE "nil"
    IN  [err |-> first,
         log |-> (IF codec # "none"
                  THEN <<Event("close", "codec", IF codecFail THEN "codec close" ELSE "nil")>>
                  ELSE << >>)
                 \o <<Event("close", "dst", IF dstFail THEN "dst close" ELSE "nil")>>]

\* runCreate returns: the deferred closes run, the tar writer's first, then
\* the compression writer's (which closes the destination); the first error
\* of the run is the one returned. Standard output's close never fails.
RunCreateReturn ==
    /\ pc = "c.close"
    /\ \E twFail \in BOOLEAN, codecFail \in BOOLEAN, dstFail \in BOOLEAN :
        \E c \in {stackedClose(cr.codec, codecFail, dstFail /\ cr.dest.kind # "stdio")} :
        LET twErr == IF twFail THEN "tar close" ELSE "nil"
            retErr == IF cr.bodyErr # "nil" THEN cr.bodyErr
                      ELSE IF twErr # "nil" THEN twErr
                      ELSE c.err
            closed == twErr = "nil" /\ c.err = "nil"
        IN  /\ cr' = [cr EXCEPT !.retErr = retErr,
                                !.log = @ \o <<Event("close", "tar", twErr)>> \o c.log]
            /\ objects' = IF cr.dest.kind = "s3" /\ closed
                          THEN PutObject(objects, cr.dest.bucket, cr.dest.key, archive, NoMeta)
                          ELSE objects
            /\ result' = classifyResult(retErr, warnings)
            /\ pc' = "returned"
    /\ UNCHANGED <<call, ret, opts, archive, pos, fs, stdout, warnings, done, up, stderr, ctx>>


\* -------------------------------------------------------- SpecCreateSteps

\* The longest member list drawn for a Create in steps.
MaxMembers == 2

\* The archive a Create writes: a local file, standard output, an object, and
\* a URI without a bucket.
DestFile == BaseDir \o <<Slash, "x">>
StoredObject == S3Scheme \o <<"b", Slash, "k">>
CreateArchives == {DestFile, Dash, S3Scheme \o <<"b", Slash, "t">>, S3Scheme}

\* The members: the source directory, a file in it, an object, and an ARN of
\* another service.
BadArn == ArnPrefix \o <<"w">> \o Colon \o <<"e">> \o TripleColon \o <<"x">>
CreateMembers == {DotStr, <<"a">>, StoredObject, BadArn}

\* The compression asked for: none, a codec at its default, a level out of range.
CreateCodecs == {<<"none", NoLevel>>, <<"gzip", NoLevel>>, <<"gzip", {0}>>}

StepOpts ==
    {[mode |-> "c", archive |-> a, members |-> ms, exclude |-> << >>, chdir |-> SrcDir,
      compression |-> c[1], level |-> c[2], verbose |-> FALSE]
     : a \in CreateArchives, ms \in SeqsUpTo(CreateMembers, MaxMembers),
       c \in CreateCodecs}

\* The source tree, with or without an earlier archive at the destination.
StepTrees ==
    {SrcFs("644", "b", "none"),
     SrcFs("644", "b", "none") @@ (DestFile :> FileNode(Perm644, <<9>>, 9))}

InitCreateSteps ==
    /\ opts \in StepOpts
    /\ fs \in StepTrees
    /\ call = [src |-> fs]
    /\ archive = << >>
    /\ pos = 1
    /\ stdout = << >>
    /\ warnings = 0
    /\ result = NoResult
    /\ pc = "call"
    /\ done = << >>
    /\ up = NoRet
    /\ objects = PutObject(NoObjects, <<"b">>, <<"k">>, <<5>>, NoMeta)
    /\ stderr = << >>
    /\ ctx = "live"
    /\ cr = NoRet
    /\ ret = NoRet

NextCreateSteps ==
    Cancel \/ RunCreateStart \/ RunCreateMember \/ RunCreateWalk \/ RunCreateReturn

SpecCreateSteps == InitCreateSteps /\ [][NextCreateSteps]_vars

\* ------------------------------------------------------------- SpecCancel

\* Runs of every mode, with a cancellation at any moment.
InitCancel ==
    \/ InitCreateSteps
    \/ InitExtract
    \/ InitList

NextCancel == NextCreateSteps \/ RunStart \/ ScanEOF \/ ScanReadError \/ ScanEntry

SpecCancel == InitCancel /\ [][NextCancel]_vars

\* The members and walked paths a Create started.
Started == IF cr = NoRet THEN << >>
           ELSE SelectSeq(cr.log, LAMBDA e : e.op \in {"member", "path"})

\* C12: no member or walked path of a Create, and no tar entry of an Extract
\* or a List, is started once the context is cancelled; the run that meets a
\* cancelled context at such a boundary returns the cancellation error.
C12_NothingStartedAfterCancel ==
    /\ \A i \in 1..Len(Started) : Started[i].ctx = "live"
    /\ \A i \in 1..Len(done) : done[i].ctx = "live"

\* The half of C12 that is about Create.
CreateStopsAtCancel ==
    /\ \A i \in 1..Len(Started) : Started[i].ctx = "live"
    /\ (cr # NoRet /\ pc \in {"c.close", "returned"} /\ cr.bodyErr = Canceled)
       => ctx = "done"


\* A reference of the Create is malformed: the archive's, or a member's.
Malformed(o) ==
    \/ ParseArchive(o.archive).err # "nil"
    \/ \E i \in 1..Len(o.members) : ParseMember(o.members[i]).err # "nil"

\* C13: a Create with a malformed archive or member reference returns Fatal
\* having done no I/O: no destination was opened, created or truncated, no
\* member was read or written, the filesystem is as it was.
C13_ParseErrorBeforeAnyIO ==
    (pc = "returned" /\ cr # NoRet /\ Malformed(opts))
    => /\ result.exit = ExitFatal
       /\ cr.log = << >>
       /\ archive = << >>
       /\ fs = call.src

\* The closes of a Create, in the order they happened, and what came before.
Closes == SelectSeq(cr.log, LAMBDA e : e.op = "close")
BeforeCloses == SubSeq(cr.log, 1, Len(cr.log) - Len(Closes))
CloseError(what) ==
    \E i \in 1..Len(Closes) : Closes[i].what = what /\ Closes[i].err # "nil"

\* The writers a Create made, in the order they are to be closed.
WritersMade ==
    (IF cr.tw THEN <<"tar">> ELSE << >>)
    \o (IF cr.codec \in Codecs THEN <<"codec">> ELSE << >>)
    \o <<"dst">>

\* C14: when a Create whose destination was opened returns, by whatever path,
\* every writer it made has been closed exactly once, the tar writer first,
\* then the compression layer, then the destination, whichever of the closes
\* failed, and nothing was written after the first close; with no earlier
\* error the first failing close (the tar writer's, else the codec's, else
\* the destination's) is the run's error and the run is Fatal, and with no
\* close error the run is a Success. When the open failed nothing else was
\* done: nothing written, nothing closed, the filesystem as it was.
C14_CloseOrdering ==
    (pc = "returned" /\ cr # NoRet /\ cr.log # << >>) =>
        IF cr.log[1].err # "nil"
        THEN /\ Len(cr.log) = 1
             /\ archive = << >>
             /\ fs = call.src
             /\ result.exit = ExitFatal
        ELSE /\ [i \in 1..Len(Closes) |-> Closes[i].what] = WritersMade
             /\ \A i \in 1..Len(BeforeCloses) : BeforeCloses[i].op # "close"
             /\ (cr.tw /\ cr.bodyErr = "nil") =>
                    result = IF CloseError("tar") THEN [exit |-> ExitFatal, err |-> "tar close"]
                             ELSE IF CloseError("codec")
                             THEN [exit |-> ExitFatal, err |-> "codec close"]
                             ELSE IF CloseError("dst")
                             THEN [exit |-> ExitFatal, err |-> "dst close"]
                             ELSE [exit |-> ExitSuccess, err |-> "nil"]

\* C14's case: a member was written, the tar writer closed, the codec's close
\* failed, the destination's close failed too, and the run is Fatal with the
\* codec's error.
C14_Witness ==
    /\ pc = "returned"
    /\ cr # NoRet
    /\ Len(archive) > 0
    /\ cr.bodyErr = "nil"
    /\ [i \in 1..Len(Closes) |-> Closes[i].err] = <<"nil", "codec close", "dst close">>
    /\ result = [exit |-> ExitFatal, err |-> "codec close"]


\* ------------------------------------------------------ compress, reading

\* The first bytes of each codec's stream.
Magic(c) ==
    CASE c = "gzip" -> <<31, 139>>
      [] c = "bzip2" -> <<66, 90, 104>>
      [] c = "xz" -> <<253, 55, 122, 88, 90, 0>>
      [] c = "zstd" -> <<40, 181, 47, 253>>
      [] c = "lz4" -> <<4, 34, 77, 24>>

\* detectByMagic that knows gzip only.
detectByMagicGzipOnly(magic) ==
    IF HasPrefix(magic, Magic("gzip")) THEN "gzip" ELSE "auto"

\* detectByMagic(magic)
detectByMagic(magic) ==
    IF HasPrefix(magic, Magic("gzip")) THEN "gzip"
    ELSE IF HasPrefix(magic, Magic("bzip2")) THEN "bzip2"
    ELSE IF HasPrefix(magic, Magic("xz")) THEN "xz"
    ELSE IF HasPrefix(magic, Magic("zstd")) THEN "zstd"
    ELSE IF HasPrefix(magic, Magic("lz4")) THEN "lz4"
    ELSE "auto"

\* strings.ToLower, on the letters drawn.
LowerChar(c) == CASE c = "G" -> "g" [] c = "Z" -> "z" [] c = "T" -> "t" [] OTHER -> c
ToLower(s) == [i \in 1..Len(s) |-> LowerChar(s[i])]

\* filepath.Ext: from the last dot of the last element, "" without one.
RECURSIVE ExtFrom(_, _)
ExtFrom(name, i) ==
    IF i = 0 \/ name[i] = Slash THEN EmptyStr
    ELSE IF name[i] = Dot THEN SubSeq(name, i, Len(name))
    ELSE ExtFrom(name, i - 1)
Ext(name) == ExtFrom(name, Len(name))

\* detectByExt(name)
detectByExt(name) ==
    LET ext == ToLower(Ext(name)) IN
    IF ext \in {<<Dot, "g", "z">>, <<Dot, "t", "g", "z">>} THEN "gzip"
    ELSE IF ext \in {<<Dot, "b", "z", "2">>, <<Dot, "t", "b", "z", "2">>,
                     <<Dot, "t", "b", "z">>} THEN "bzip2"
    ELSE IF ext \in {<<Dot, "x", "z">>, <<Dot, "t", "x", "z">>} THEN "xz"
    ELSE IF ext \in {<<Dot, "z", "s", "t">>, <<Dot, "t", "z", "s", "t">>,
                     <<Dot, "z", "s", "t", "d">>} THEN "zstd"
    ELSE IF ext \in {<<Dot, "l", "z", "4">>, <<Dot, "t", "l", "z", "4">>} THEN "lz4"
    ELSE "auto"

\* A codec's stream for a payload: its magic, the payload transformed, a
\* checksum. The codecs are libraries; this is the least that tells a codec's
\* stream from its payload and from another codec's.
RECURSIVE SumBytes(_)
SumBytes(b) == IF b = << >> THEN 0 ELSE Head(b) + SumBytes(Tail(b))
Frame(c, b) ==
    Magic(c) \o [i \in 1..Len(b) |-> (b[i] + Len(Magic(c))) % 256] \o <<SumBytes(b) % 256>>

\* What a codec's reader gives for a stream: [err, data]. The zstd reader
\* takes an empty stream for an empty payload.
Decode(c, s) ==
    IF c = "zstd" /\ s = << >> THEN [err |-> "nil", data |-> << >>]
    ELSE IF ~HasPrefix(s, Magic(c)) \/ Len(s) <= Len(Magic(c))
    THEN [err |-> "invalid header", data |-> << >>]
    ELSE LET body == SubSeq(s, Len(Magic(c)) + 1, Len(s) - 1)
             data == [i \in 1..Len(body) |-> (body[i] + 256 - Len(Magic(c))) % 256]
         IN  IF s[Len(s)] # SumBytes(data) % 256
             THEN [err |-> "checksum", data |-> data]
             ELSE [err |-> "nil", data |-> data]

\* What NewWriter(dst, c), Write(b) and Close leave in dst. Of an empty
\* payload gzip and xz write a frame, zstd writes nothing (zero frames are an
\* option it is not given), bzip2 and lz4 one or the other.
Encodings(c, b) ==
    IF c \notin Codecs THEN {b}
    ELSE IF b # << >> \/ c \in {"gzip", "xz"} THEN {Frame(c, b)}
    ELSE IF c = "zstd" THEN {<< >>}
    ELSE {<< >>, Frame(c, b)}

\* wrapReader(reader, src, t): [err, data], the bytes read to the end.
wrapReader(s, t) ==
    IF t = "none" THEN [err |-> "nil", data |-> s]
    ELSE IF t \in Codecs THEN Decode(t, s)
    ELSE [err |-> "unsupported compression type", data |-> << >>]

\* The first n bytes of a stream, or all of a shorter one (bufio's Peek).
Peek(s, n) == SubSeq(s, 1, IF Len(s) < n THEN Len(s) ELSE n)
PeekLen == 8

\* NewReader that asks the file name before the stream.
NewReaderExtFirst(src, explicit, hint) ==
    IF explicit # "auto"
    THEN Only({ [t |-> explicit, err |-> r.err, data |-> r.data]
              : r \in {wrapReader(src, explicit)} })
    ELSE Only({
        Only({ [t |-> t, err |-> r.err, data |-> r.data] : r \in {wrapReader(src, t)} })
      : t \in {IF detectByExt(hint) # "auto" THEN detectByExt(hint)
               ELSE IF detectByMagic(Peek(src, PeekLen)) # "auto"
               THEN detectByMagic(Peek(src, PeekLen))
               ELSE "none"}})

\* NewReader(src, explicit, hint): [t, err, data], the type reported, and the
\* error and bytes of the reader when read to its end. The peeked bytes stay
\* in the buffered reader the codec reads.
NewReader(src, explicit, hint) ==
    IF explicit # "auto"
    THEN Only({ [t |-> explicit, err |-> r.err, data |-> r.data]
              : r \in {wrapReader(src, explicit)} })
    ELSE Only({
        Only({ [t |-> t, err |-> r.err, data |-> r.data] : r \in {wrapReader(src, t)} })
      : t \in {IF detectByMagic(Peek(src, PeekLen)) # "auto"
               THEN detectByMagic(Peek(src, PeekLen))
               ELSE IF detectByExt(hint) # "auto" THEN detectByExt(hint)
               ELSE "none"}})

\* ----------------------------------------------------------- SpecCompress

\* The longest payload drawn, over bytes that begin a gzip stream and one that
\* begins none.
MaxBytes == 2
ByteAlphabet == {0, 31, 139}

\* The payloads: short ones, and the magic of each codec as a payload.
Payloads == StrsUpTo(ByteAlphabet, MaxBytes) \cup {Magic(c) : c \in Codecs}

\* The streams read: payloads as they are, and framed by each codec.
Streams == Payloads \cup {Frame(c, b) : c \in Codecs, b \in Payloads}

\* The names given as a hint: without an extension of a codec, with one, in
\* capitals, on a directory only.
Hints == {<<"a", Dot, "t", "a", "r">>, <<"a", Dot, "t", "a", "r", Dot, "g", "z">>,
          <<"a", Dot, "T", "G", "Z">>, <<"a", Dot, "t", "x", "z">>,
          <<"d", Dot, "g", "z", Slash, "a">>}

Types == Codecs \cup {"none", "auto"}
Levels == {NoLevel} \cup {{n} : n \in (MinLevel - MaxOver - 1)..(MaxLevel + MaxOver)}

InitCompress ==
    /\ call \in [kind : {"reader"}, src : Streams, explicit : Types, hint : Hints]
            \cup [kind : {"roundtrip"}, codec : Codecs \cup {"none"}, b : Payloads,
                  hint : Hints]
            \cup [kind : {"writer"}, t : Types, level : Levels]
    /\ ret = NoRet
    /\ IdleRun

\* NewReader on a stream, read to its end.
ReaderCall ==
    /\ ret = NoRet
    /\ call.kind = "reader"
    /\ ret' = [kind |-> "reader", read |-> NewReader(call.src, call.explicit, call.hint)]
    /\ UNCHANGED <<call, runVars, up, objects, stderr, ctx, cr>>

\* TestRoundTrip: a payload written through NewWriter, closed, and read back
\* through NewReader with Auto.
RoundTripCall ==
    /\ ret = NoRet
    /\ call.kind = "roundtrip"
    /\ NewWriter(call.codec, NoLevel).err = "nil"
    /\ \E enc \in Encodings(NewWriter(call.codec, NoLevel).codec, call.b) :
        ret' = [kind |-> "roundtrip", enc |-> enc,
                read |-> NewReader(enc, "auto", call.hint)]
    /\ UNCHANGED <<call, runVars, up, objects, stderr, ctx, cr>>

\* NewWriter at a level.
WriterCall ==
    /\ ret = NoRet
    /\ call.kind = "writer"
    /\ ret' = [kind |-> "writer", w |-> NewWriter(call.t, call.level)]
    /\ UNCHANGED <<call, runVars, up, objects, stderr, ctx, cr>>

NextCompress == ReaderCall \/ RoundTripCall \/ WriterCall

SpecCompress == InitCompress /\ [][NextCompress]_vars

\* The codec whose magic begins a stream, and the codec a name's extension
\* names: the name in small letters ends with the extension.
MagicCodecs(s) == {c \in Codecs : HasPrefix(s, Magic(c))}
ExtTable ==
    {<<"gzip", <<Dot, "g", "z">> >>, <<"gzip", <<Dot, "t", "g", "z">> >>,
     <<"bzip2", <<Dot, "b", "z", "2">> >>, <<"bzip2", <<Dot, "t", "b", "z", "2">> >>,
     <<"bzip2", <<Dot, "t", "b", "z">> >>,
     <<"xz", <<Dot, "x", "z">> >>, <<"xz", <<Dot, "t", "x", "z">> >>,
     <<"zstd", <<Dot, "z", "s", "t">> >>, <<"zstd", <<Dot, "t", "z", "s", "t">> >>,
     <<"zstd", <<Dot, "z", "s", "t", "d">> >>,
     <<"lz4", <<Dot, "l", "z", "4">> >>, <<"lz4", <<Dot, "t", "l", "z", "4">> >>}
ExtCodecs(name) ==
    {e[1] : e \in {e \in ExtTable : TrimSuffix(ToLower(name), e[2]) # ToLower(name)}}

\* C15: NewReader reports the explicit type when it is not Auto, whatever the
\* stream and the name; with Auto the codec whose magic begins the stream,
\* else the codec of the name's extension, else None; and the type reported is
\* the one applied to the whole stream, the peeked bytes included: None
\* delivers the stream from its first byte, a codec decodes it from there.
C15_DetectionPrecedence ==
    ret.kind = "reader" =>
        /\ ret.read.t =
             IF call.explicit # "auto" THEN call.explicit
             ELSE IF MagicCodecs(call.src) # {} THEN Only(MagicCodecs(call.src))
             ELSE IF ExtCodecs(call.hint) # {} THEN Only(ExtCodecs(call.hint))
             ELSE "none"
        /\ ret.read.t = "none" => (ret.read.err = "nil" /\ ret.read.data = call.src)
        /\ ret.read.t \in Codecs =>
               [err |-> ret.read.err, data |-> ret.read.data] = Decode(ret.read.t, call.src)

\* C15's case: a gzip stream under a name that says xz is read as gzip, and
\* its payload comes out.
C15_Witness ==
    /\ ret.kind = "reader"
    /\ call.explicit = "auto"
    /\ call.hint = <<"a", Dot, "t", "x", "z">>
    /\ call.src = Frame("gzip", <<31, 0>>)
    /\ ret.read = [t |-> "gzip", err |-> "nil", data |-> <<31, 0>>]

\* The round trip gave the payload back and reported the codec it was
\* written with.
RoundTripExact ==
    /\ ret.read.err = "nil"
    /\ ret.read.data = call.b
    /\ ret.read.t = call.codec

C17_LevelRange ==
    ret.kind = "writer" =>
        IF call.level = NoLevel
        THEN /\ ret.w.err = "nil"
             /\ ret.w.level = NoLevel
             /\ ret.w.codec = IF call.t \in Codecs THEN call.t ELSE "none"
        ELSE \A n \in call.level :
             IF n < 1 \/ n > 9
             THEN ret.w.err # "nil" /\ ret.w.codec = "nil"
             ELSE /\ ret.w.err = "nil"
                  /\ call.t \in Codecs => ret.w = [err |-> "nil", codec |-> call.t,
                                                   level |-> {n}]
                  /\ call.t \notin Codecs => ret.w.codec = "none"

\* C17's case: level 0 asked of None was refused, no writer made.
C17_Witness ==
    /\ ret.kind = "writer"
    /\ call.t = "none"
    /\ call.level = {0}
    /\ ret.w.err # "nil"
    /\ ret.w.codec = "nil"


\* ------------------------------------------------------------ SpecLocator

\* The longest tail drawn after a reference's prefix.
MaxRefLen == 3

\* The raw references: nothing, a dash, a URI, ARNs of s3 and of another
\* service, of a bucket and of an access point, each continued by every short
\* string over a letter, a slash and (but for the URI, whose host would then
\* carry a port) a colon, and by an object path.
RefTails ==
    StrsUpTo({"b", Slash, ":"}, MaxRefLen) \cup {ObjectSep, ObjectSep \o <<"k">>}
ArnOf(service) == ArnPrefix \o <<"w">> \o Colon \o service \o Colon
RefHeads ==
    {EmptyStr, Dash, ArnPrefix, ArnOf(S3Service), ArnOf(<<"e">>),
     ArnOf(S3Service) \o <<":", ":">>, ArnOf(S3Service) \o <<":", ":">> \o BucketPrefix,
     ArnOf(S3Service) \o <<"r", ":", "1", ":">> \o AccessPointPrefix \o <<"p">>}
RawRefs ==
    {h \o t : h \in RefHeads, t \in RefTails}
    \cup {S3Scheme \o t : t \in StrsUpTo({"b", Slash}, MaxRefLen)}

InitLocator ==
    /\ call \in [kind : {"parse"}, raw : RawRefs]
    /\ ret = NoRet
    /\ IdleRun

\* The reference parsed as an archive and as a member.
ParseCall ==
    /\ ret = NoRet
    /\ ret' = [kind |-> "parse", archive |-> ParseArchive(call.raw),
               member |-> ParseMember(call.raw)]
    /\ UNCHANGED <<call, runVars, up, objects, stderr, ctx, cr>>

NextLocator == ParseCall

SpecLocator == InitLocator /\ [][NextLocator]_vars

\* The rules of resolution, stated on the string: the bucket of a URI is what
\* stands before the first slash after the scheme, its key what stands after
\* that slash; an ARN has the service third among its colon-separated
\* sections and the resource from the sixth on; an access point's resource
\* has a non-empty key after /object/; any other resource is bucket/key, both
\* non-empty, after an optional ":::" and an optional "bucket/".
UriRule(v) ==
    LET rest == SubSeq(v, Len(S3Scheme) + 1, Len(v))
        parts == Split(rest, Slash)
    IN  IF parts[1] = EmptyStr THEN "error"
        ELSE <<"s3", parts[1], JoinStr(Tail(parts), Slash)>>
ArnRule(v) ==
    LET sections == Split(v, ":")
        resource == JoinStr(SubSeq(sections, 6, Len(sections)), ":")
        plain == TrimPrefix(TrimPrefix(resource, TripleColon), BucketPrefix)
        cut == IndexFrom(plain, Slash, 1)
    IN  IF Len(sections) < 6 \/ sections[3] # S3Service THEN "error"
        ELSE IF HasPrefix(resource, AccessPointPrefix)
        THEN LET at == {k \in 1..(Len(resource) - Len(ObjectSep)) :
                           SubSeq(resource, k, k + Len(ObjectSep) - 1) = ObjectSep}
                 first == CHOOSE k \in at : \A j \in at : k <= j
             IN  IF at = {} THEN "error"
                 ELSE <<"s3", SubSeq(v, 1, Len(v) - Len(resource) + first - 1),
                        SubSeq(resource, first + Len(ObjectSep), Len(resource))>>
        ELSE IF cut <= 1 \/ cut >= Len(plain) THEN "error"
        ELSE <<"s3", SubSeq(plain, 1, cut - 1), SubSeq(plain, cut + 1, Len(plain))>>

\* What a reference resolves to under the rules, with or without the rule
\* for the dash.
Rules(v, dash) ==
    IF dash /\ v = Dash THEN <<"stdio">>
    ELSE IF HasPrefix(v, S3Scheme) THEN UriRule(v)
    ELSE IF HasPrefix(v, ArnPrefix) THEN ArnRule(v)
    ELSE <<"local", v>>

\* A parsed reference, as the rules give it.
Resolved(r) ==
    IF r.err # "nil" THEN "error"
    ELSE IF r.kind = "stdio" THEN <<"stdio">>
    ELSE IF r.kind = "s3" THEN <<"s3", r.bucket, r.key>>
    ELSE <<"local", r.path>>

\* C18 as stated: an archive reference and a member reference resolve by the
\* same rules, the dash first.
C18_SameRulesForMembers ==
    ret.kind = "parse" =>
        /\ Resolved(ret.archive) = Rules(call.raw, TRUE)
        /\ Resolved(ret.member) = Rules(call.raw, TRUE)

\* C18, amended: an archive reference resolves by the rules in order, the
\* dash to Stdio first; a member reference resolves by the same rules without
\* the first, so that a dash is the Local path "-".
C18_ResolutionRules ==
    ret.kind = "parse" =>
        /\ Resolved(ret.archive) = Rules(call.raw, TRUE)
        /\ Resolved(ret.member) = Rules(call.raw, FALSE)

\* C18's case: the dash was resolved, to Stdio as an archive and to the Local
\* path "-" as a member.
C18_Witness ==
    /\ ret.kind = "parse"
    /\ call.raw = Dash
    /\ ret.archive.kind = "stdio"
    /\ ret.member.kind = "local"
    /\ ret.member.path = Dash


\* ------------------------------------------------- extended records (PAX)

\* The prefixes of the extended records of attributes and of ACLs.
xattrPrefix == <<"G", "O", "T", "G", "Z", ".", "x", "a", "t", "t", "r", ".">>
aclPrefix == <<"G", "O", "T", "G", "Z", ".", "a", "c", "l", ".">>

\* url.QueryEscape on the characters drawn: letters, digits and the dot stay,
\* a space becomes a plus, any other character its code in capital hex.
Unreserved == {"a", "c", "l", "u", "B", "F", "0", "2", "5", "."}
HexOf(c) ==
    CASE c = "+" -> <<"2", "B">>
      [] c = "%" -> <<"2", "5">>
      [] c = "/" -> <<"2", "F">>
      [] OTHER -> <<"2", "0">>
EscapeChar(c) ==
    IF c \in Unreserved THEN <<c>>
    ELSE IF c = " " THEN <<"+">>
    ELSE <<"%">> \o HexOf(c)
RECURSIVE QueryEscape(_)
QueryEscape(s) ==
    IF Len(s) = 0 THEN EmptyStr ELSE EscapeChar(Head(s)) \o QueryEscape(Tail(s))

\* url.QueryUnescape: a percent sign takes two hex digits after it (an error
\* without them) and gives the character of that code, a plus gives a space.
\* A code of no character drawn is the character "?"; of the characters
\* drawn, the hex digits are those of HexDigits.
HexDigits == {"0", "2", "5", "B", "F", "a", "c"}
UpperHex(c) == CASE c = "a" -> "A" [] c = "c" -> "C" [] OTHER -> c
CharOfHex(h1, h2) ==
    LET known == {c \in {"+", "%", "/", " "} : HexOf(c) = <<UpperHex(h1), UpperHex(h2)>>}
    IN  IF known = {} THEN "?" ELSE Only(known)
RECURSIVE QueryUnescape(_)
QueryUnescape(s) ==
    IF Len(s) = 0 THEN [err |-> "nil", s |-> EmptyStr]
    ELSE IF s[1] = "%"
    THEN IF Len(s) < 3 \/ s[2] \notin HexDigits \/ s[3] \notin HexDigits
         THEN [err |-> "invalid URL escape", s |-> EmptyStr]
         ELSE Only({ IF r.err # "nil" THEN r
                     ELSE [err |-> "nil", s |-> <<CharOfHex(s[2], s[3])>> \o r.s]
                     : r \in {QueryUnescape(SubSeq(s, 4, Len(s)))} })
    ELSE Only({ IF r.err # "nil" THEN r
                ELSE [err |-> "nil", s |-> <<IF s[1] = "+" THEN " " ELSE s[1]>> \o r.s]
                : r \in {QueryUnescape(Tail(s))} })

\* base64.StdEncoding: three bytes to four characters of the alphabet, the
\* last group padded with "=".
B64Chars ==
    <<"A", "B", "C", "D", "E", "F", "G", "H", "I", "J", "K", "L", "M", "N", "O", "P",
      "Q", "R", "S", "T", "U", "V", "W", "X", "Y", "Z", "a", "b", "c", "d", "e", "f",
      "g", "h", "i", "j", "k", "l", "m", "n", "o", "p", "q", "r", "s", "t", "u", "v",
      "w", "x", "y", "z", "0", "1", "2", "3", "4", "5", "6", "7", "8", "9", "+", "/">>
Pad == "="
B64(n) == B64Chars[n + 1]
IsB64(c) == \E i \in DOMAIN B64Chars : B64Chars[i] = c
B64Index(c) == (CHOOSE i \in DOMAIN B64Chars : B64Chars[i] = c) - 1
RECURSIVE EncodeToString(_)
EncodeToString(v) ==
    IF Len(v) = 0 THEN EmptyStr
    ELSE IF Len(v) = 1
    THEN <<B64(v[1] \div 4), B64((v[1] % 4) * 16), Pad, Pad>>
    ELSE IF Len(v) = 2
    THEN <<B64(v[1] \div 4), B64((v[1] % 4) * 16 + (v[2] \div 16)),
           B64((v[2] % 16) * 4), Pad>>
    ELSE <<B64(v[1] \div 4), B64((v[1] % 4) * 16 + (v[2] \div 16)),
           B64((v[2] % 16) * 4 + (v[3] \div 64)), B64(v[3] % 64)>>
         \o EncodeToString(SubSeq(v, 4, Len(v)))

\* base64.StdEncoding.DecodeString: groups of four, padding in the last
\* group only; anything else is corrupt input.
CorruptInput == [err |-> "illegal base64 data", b |-> << >>]
RECURSIVE DecodeString(_)
DecodeString(s) ==
    IF Len(s) = 0 THEN [err |-> "nil", b |-> << >>]
    ELSE IF Len(s) < 4 \/ ~IsB64(s[1]) \/ ~IsB64(s[2]) THEN CorruptInput
    ELSE IF IsB64(s[3]) /\ IsB64(s[4])
    THEN Only({ IF r.err # "nil" THEN r
                ELSE [err |-> "nil",
                      b |-> <<B64Index(s[1]) * 4 + (B64Index(s[2]) \div 16),
                              (B64Index(s[2]) % 16) * 16 + (B64Index(s[3]) \div 4),
                              (B64Index(s[3]) % 4) * 64 + B64Index(s[4])>> \o r.b]
                : r \in {DecodeString(SubSeq(s, 5, Len(s)))} })
    ELSE IF Len(s) # 4 THEN CorruptInput
    ELSE IF s[3] = Pad /\ s[4] = Pad
    THEN [err |-> "nil", b |-> <<B64Index(s[1]) * 4 + (B64Index(s[2]) \div 16)>>]
    ELSE IF IsB64(s[3]) /\ s[4] = Pad
    THEN [err |-> "nil",
          b |-> <<B64Index(s[1]) * 4 + (B64Index(s[2]) \div 16),
                  (B64Index(s[2]) % 16) * 16 + (B64Index(s[3]) \div 4)>>]
    ELSE CorruptInput

\* A header's extended records, none at first (EnsurePAX).
NoRecords == << >>

\* The records of pax with those of a map of attributes under a prefix, each
\* under the key keys gives its name.
WithRecords(pax, attrs, keys) ==
    [k \in DOMAIN pax \cup {keys[n] : n \in DOMAIN attrs} |->
        IF \E n \in DOMAIN attrs : keys[n] = k
        THEN EncodeToString(attrs[CHOOSE n \in DOMAIN attrs : keys[n] = k])
        ELSE pax[k]]

\* EncodeXattrToPAX: xattrPrefix + the escaped name = base64 of the value.
EncodeXattrToPAX(pax, attrs) ==
    WithRecords(pax, attrs, [n \in DOMAIN attrs |-> xattrPrefix \o QueryEscape(n)])

\* EncodeACLToPAX with its records put under the prefix of the attributes.
EncodeACLUnderXattrPrefix(pax, acls) ==
    WithRecords(pax, acls, [n \in DOMAIN acls |-> xattrPrefix \o n])

\* EncodeACLToPAX: aclPrefix + the name as it is = base64 of the value.
EncodeACLToPAX(pax, acls) ==
    WithRecords(pax, acls, [n \in DOMAIN acls |-> aclPrefix \o n])

\* The decoded records under a prefix: names[k] is the name of key k (with
\* its error), the value is the base64 decoded; the first error is returned
\* with no map.
DecodeRecords(pax, keys, names, nameErr, valueErr) ==
    IF \E k \in keys : names[k].err # "nil" THEN [err |-> nameErr, out |-> NoRecords]
    ELSE IF \E k \in keys : DecodeString(pax[k]).err # "nil"
    THEN [err |-> valueErr, out |-> NoRecords]
    ELSE [err |-> "nil",
          out |-> [n \in {names[k].s : k \in keys} |->
                      DecodeString(pax[CHOOSE k \in keys : names[k].s = n]).b]]

\* DecodeXattrFromPAX
DecodeXattrFromPAX(pax) ==
    LET keys == {k \in DOMAIN pax : HasPrefix(k, xattrPrefix)}
    IN  DecodeRecords(pax, keys,
                      [k \in keys |-> QueryUnescape(TrimPrefix(k, xattrPrefix))],
                      "decode xattr name", "decode xattr")

\* DecodeACLFromPAX
DecodeACLFromPAX(pax) ==
    LET keys == {k \in DOMAIN pax : HasPrefix(k, aclPrefix)}
    IN  DecodeRecords(pax, keys,
                      [k \in keys |-> [err |-> "nil", s |-> TrimPrefix(k, aclPrefix)]],
                      "decode acl name", "decode acl")


\* ------------------------------------------------ metadata of a local path

\* strings.Contains(name, "acl")
AclClass(name) == IndexOfSub(name, <<"a", "c", "l">>, 1) # 0

\* archive.ReadPathMetadata: every attribute of the path is an xattr, and
\* those whose name contains "acl" are ACLs as well.
ReadPathMetadata(attrs) ==
    [xattrs |-> attrs,
     acls |-> [n \in {x \in DOMAIN attrs : AclClass(x)} |-> attrs[n]]]

\* The extended records addLocalPath puts in the header of a path: the
\* attributes read, then the ACLs read, whatever the options say.
addLocalPathRecords(attrs) ==
    Only({ EncodeACLToPAX(EncodeXattrToPAX(NoRecords, md.xattrs), md.acls)
           : md \in {ReadPathMetadata(attrs)} })

\* archive.WritePathMetadata: each xattr is set on the path, then each ACL
\* under its own name; errors are dropped.
WritePathMetadata(attrs, xattrs, acls) == acls @@ xattrs @@ attrs

\* The end of extractToLocal: both maps are decoded (none on an error) and
\* written to the target, whatever the options say.
restoreExtended(attrs, pax) ==
    Only({ WritePathMetadata(attrs, x.out, a.out)
           : x \in {DecodeXattrFromPAX(pax)}, a \in {DecodeACLFromPAX(pax)} })


\* ------------------------------------------------------------ SpecMetadata

\* The longest value of an attribute.
MaxValLen == 3

\* Names of attributes: plain, ACL-class, with characters that are escaped,
\* and one that reads like an escape.
AttrNames ==
    {<<"u">>, <<"a", "c", "l">>, <<"u", " ", "+", "/">>, <<"%", "2", "B">>}
AttrBytes == {0, 255}
AttrValues == StrsUpTo(AttrBytes, MaxValLen)

\* Maps of attributes: none, one, or two (the second with a short value).
OneAttr == {n :> v : n \in AttrNames, v \in AttrValues}
AttrMaps ==
    {NoRecords} \cup OneAttr
    \cup {(n :> v) @@ one : n \in AttrNames, v \in {<<0>>, << >>}, one \in OneAttr}
AclMaps == {NoRecords} \cup {n :> v : n \in AttrNames, v \in {<<0>>, <<255, 0>>}}

\* The metadata policy of the options: --xattrs and --acl, both off by
\* default.
Policies == [xattrs : BOOLEAN, acl : BOOLEAN]

InitMetadata ==
    /\ call \in [kind : {"meta"}, xattrs : AttrMaps, acls : AclMaps, policy : Policies]
    /\ ret = NoRet
    /\ IdleRun

\* A header is given both maps and both are decoded from it.
EncodeDecodeCall ==
    /\ ret = NoRet
    /\ \E pax \in {EncodeACLToPAX(EncodeXattrToPAX(NoRecords, call.xattrs), call.acls)} :
           ret' = [kind |-> "pax", pax |-> pax,
                   xattrs |-> DecodeXattrFromPAX(pax), acls |-> DecodeACLFromPAX(pax)]
    /\ UNCHANGED <<call, runVars, up, objects, stderr, ctx, cr>>

\* Create reaches a path that has the attributes call.xattrs.
ArchivePathCall ==
    /\ ret = NoRet
    /\ ret' = [kind |-> "create", pax |-> addLocalPathRecords(call.xattrs)]
    /\ UNCHANGED <<call, runVars, up, objects, stderr, ctx, cr>>

\* Extract restores, on a target without attributes, an entry whose header
\* carries both maps.
RestorePathCall ==
    /\ ret = NoRet
    /\ \E pax \in {EncodeACLToPAX(EncodeXattrToPAX(NoRecords, call.xattrs), call.acls)} :
           ret' = [kind |-> "extract", pax |-> pax,
                   attrs |-> restoreExtended(NoRecords, pax)]
    /\ UNCHANGED <<call, runVars, up, objects, stderr, ctx, cr>>

NextMetadata == EncodeDecodeCall \/ ArchivePathCall \/ RestorePathCall

SpecMetadata == InitMetadata /\ [][NextMetadata]_vars

\* C19: a header given a map of attributes and a map of ACLs decodes to
\* exactly those two maps, without error: each map comes back as it went in,
\* and no record of one namespace is returned by the decoder of the other,
\* also when a name is in both maps with different values.
C19_RoundTripAndSeparation ==
    ret.kind = "pax" =>
        /\ ret.xattrs.err = "nil"
        /\ ret.xattrs.out = call.xattrs
        /\ ret.acls.err = "nil"
        /\ ret.acls.out = call.acls

\* C19's case: one name, with a character that is escaped, is in both maps
\* with different values, and both were decoded.
C19_Witness ==
    /\ ret.kind = "pax"
    /\ \E n \in DOMAIN call.xattrs \cap DOMAIN call.acls :
           /\ n # QueryEscape(n)
           /\ call.xattrs[n] # call.acls[n]
           /\ ret.xattrs.out[n] = call.xattrs[n]
           /\ ret.acls.out[n] = call.acls[n]
    /\ \E n \in DOMAIN call.xattrs : Len(call.xattrs[n]) = MaxValLen

\* The part of a map of attributes whose names are not ACL-class.
PlainOnly(attrs) == [n \in {x \in DOMAIN attrs : ~AclClass(x)} |-> attrs[n]]

\* The records of a header in each namespace.
XattrRecords(pax) == {k \in DOMAIN pax : HasPrefix(k, xattrPrefix)}
AclRecords(pax) == {k \in DOMAIN pax : HasPrefix(k, aclPrefix)}

\* C20 as stated: with neither flag Create writes no record of either
\* namespace and Extract restores nothing; with --xattrs alone only the
\* attributes that are not ACL-class are written and restored and no ACL
\* record is written; with --acl alone only ACLs are written and restored.
C20_PolicyGatesMetadata ==
    /\ ret.kind = "create" =>
        /\ ~call.policy.xattrs => XattrRecords(ret.pax) = {}
        /\ ~call.policy.acl => AclRecords(ret.pax) = {}
        /\ (call.policy.xattrs /\ ~call.policy.acl) =>
               DecodeXattrFromPAX(ret.pax).out = PlainOnly(call.xattrs)
        /\ (call.policy.acl /\ ~call.policy.xattrs) =>
               DecodeACLFromPAX(ret.pax).out = ReadPathMetadata(call.xattrs).acls
    /\ ret.kind = "extract" =>
        /\ (~call.policy.xattrs /\ ~call.policy.acl) => ret.attrs = NoRecords
        /\ (call.policy.xattrs /\ ~call.policy.acl) => ret.attrs = PlainOnly(call.xattrs)
        /\ (call.policy.acl /\ ~call.policy.xattrs) => ret.attrs = call.acls


\* ---------------------------------------------------------- SpecReadOnly

\* The entries written to standard output: files, a directory, links and a
\* device with a body.
StdoutEntries == {
    Hdr(<<"a">>, "reg", EmptyStr, Perm644, <<1, 2>>),
    Hdr(<<"d">>, "dir", EmptyStr, Perm755, << >>),
    Hdr(<<"d", Slash, "a">>, "reg", EmptyStr, Perm600, <<3>>),
    Hdr(<<"l">>, "symlink", <<Slash, "e", Slash, "p">>, Perm777, << >>),
    Hdr(<<"h">>, "link", <<"a">>, Perm644, << >>),
    Hdr(<<"f">>, "other", EmptyStr, Perm644, <<6>>)}

\* Extract to standard output, of everything or of one member, with a
\* directory, an object-store prefix or a malformed reference as the target
\* that is not used.
StdoutOpts ==
    [mode : {"x"}, members : {<< >>, << <<"d", Slash, "a">> >>}, wildcards : {FALSE},
     strip : 0..MaxRunStrip, toStdout : {TRUE}, verbose : BOOLEAN,
     chdir : {BaseDir, StoredObject, S3Scheme},
     isRoot : {FALSE}, sameOwner : {"unset"}, samePermissions : {"true"},
     numericOwner : {FALSE}]

\* The object store holds an object at the target before the run.
StoredBefore == PutObject(NoObjects, <<"b">>, <<"k">>, <<8>>, NoMeta)

InitStdout ==
    /\ opts \in StdoutOpts
    /\ archive \in SeqsUpTo(StdoutEntries, MaxEntries)
    /\ pos = 1
    /\ fs = InitFs
    /\ stdout = << >>
    /\ warnings = 0
    /\ result = NoResult
    /\ pc = "call"
    /\ done = << >>
    /\ up = NoRet
    /\ objects = StoredBefore
    /\ stderr = << >>
    /\ ctx = "live"
    /\ cr = NoRet
    /\ call = NoRet
    /\ ret = NoRet

InitReadOnly == InitStdout \/ InitList

NextReadOnly == RunStart \/ ScanEOF \/ ScanReadError \/ ScanEntry

SpecReadOnly == InitReadOnly /\ [][NextReadOnly]_vars

\* The body of entry e if it is a regular file that passes the member filter
\* and is not dropped by the strip count, nothing otherwise.
BodyOut(e) ==
    IF Dispatched(e) /\ e.hdr.typeflag = "reg" THEN e.hdr.data ELSE << >>

\* The bodies of the first k entries read, in the order read.
RECURSIVE BodiesOut(_)
BodiesOut(k) == IF k = 0 THEN << >> ELSE BodiesOut(k - 1) \o BodyOut(done[k])

\* C23: Extract to standard output and List leave the filesystem and the
\* object store as they were; under Extract to standard output the stream
\* holds the bodies of the regular entries that pass the member filter and
\* are not dropped by the strip count, in the order read, and nothing else
\* (of an entry whose copy failed, the part copied before the failure).
C23_NoEffectsAndBodiesOnly ==
    (opts.mode = "t" \/ opts.toStdout) =>
        /\ fs = InitFs
        /\ objects = IF opts.toStdout THEN StoredBefore ELSE NoObjects
        /\ stderr = << >>
        /\ opts.toStdout =>
               IF Len(done) > 0 /\ done[Len(done)].err # "nil"
               THEN \E n \in 0..Len(BodyOut(done[Len(done)])) :
                        stdout = BodiesOut(Len(done) - 1)
                                 \o SubSeq(BodyOut(done[Len(done)]), 1, n)
               ELSE stdout = BodiesOut(Len(done))

\* C23's case: a device with a body was discarded, a file was written to
\* standard output, and the run returned with an object-store target unused.
C23_Witness ==
    /\ opts.toStdout
    /\ opts.chdir = StoredObject
    /\ Len(done) = 2
    /\ done[1].hdr.typeflag = "other"
    /\ Len(done[1].hdr.data) > 0
    /\ done[1].what = "discarded"
    /\ done[2].what = "extracted"
    /\ stdout = done[2].hdr.data
    /\ pc = "returned"
    /\ result.exit = ExitSuccess


\* ------------------------------------------------------------ SpecSuffix

\* strings.HasSuffix
HasSuffix(s, p) == Len(s) >= Len(p) /\ SubSeq(s, Len(s) - Len(p) + 1, Len(s)) = p

\* filepath.Base of a path that does not end in a slash.
Base(p) == IF p = EmptyStr THEN DotStr ELSE SubSeq(p, LastIndex(p, Slash, Len(p)) + 1, Len(p))

\* time.Now().Format("20060102") on the day of the run.
Today == <<"2", "0", "2", "6", "1", "1", "0", "1">>
DateSuffix == <<"d", "a", "t", "e">>
TarExt == <<Dot, "t", "a", "r">>

\* AddTarSuffix(fileName, suffix): the suffix goes before the extension,
\* ".tar" + extension counting as one; a name that is all extension is left
\* as it is.
AddTarSuffix(fileName, suffix) ==
    IF suffix = EmptyStr \/ Ext(fileName) = fileName THEN fileName
    ELSE LET ext == IF HasSuffix(fileName, TarExt \o Ext(fileName))
                    THEN TarExt \o Ext(fileName) ELSE Ext(fileName)
             file == TrimSuffix(Base(fileName), ext)
             tag == IF suffix = DateSuffix THEN Today ELSE suffix
         IN  Join(Dir(fileName), file \o <<"-">> \o tag \o ext)

\* Archives named with and without an extension, and the suffixes: none, a
\* custom one, the date.
SuffixArchives ==
    {BaseDir \o <<Slash, "x">>, BaseDir \o <<Slash, "x", Dot, "g", "z">>,
     BaseDir \o <<Slash, "x">> \o TarExt \o <<Dot, "g", "z">>}
Suffixes == {EmptyStr, <<"c">>, DateSuffix}

SuffixOpts ==
    {[mode |-> "c", archive |-> a, suffix |-> x, members |-> ms, exclude |-> << >>,
      chdir |-> SrcDir, compression |-> c[1], level |-> c[2], verbose |-> FALSE]
     : a \in SuffixArchives, x \in Suffixes, ms \in {<<DotStr>>, << <<"a">> >>},
       c \in {<<"none", NoLevel>>, <<"gzip", NoLevel>>}}

InitSuffix ==
    /\ opts \in SuffixOpts
    /\ fs = SrcFs("644", "b", "none")
    /\ call = [src |-> fs]
    /\ archive = << >>
    /\ pos = 1
    /\ stdout = << >>
    /\ warnings = 0
    /\ result = NoResult
    /\ pc = "call"
    /\ done = << >>
    /\ up = NoRet
    /\ objects = NoObjects
    /\ stderr = << >>
    /\ ctx = "live"
    /\ cr = NoRet
    /\ ret = NoRet

NextSuffix ==
    Cancel \/ RunCreateStart \/ RunCreateMember \/ RunCreateWalk \/ RunCreateReturn

SpecSuffix == InitSuffix /\ [][NextSuffix]_vars

\* C24 as stated: a Create that succeeded has written the archive at
\* AddTarSuffix(archive, suffix), and with a suffix no file is at the archive
\* path without it.
C24_ArchiveAtSuffixedPath ==
    (pc = "returned" /\ result.exit = ExitSuccess) =>
        /\ Stat(fs, AddTarSuffix(opts.archive, opts.suffix)).kind = "file"
        /\ AddTarSuffix(opts.archive, opts.suffix) # opts.archive
           => Stat(fs, opts.archive).kind = "none"

\* With a suffix, the archive is at the path without it.
ArchiveAtPlainPath ==
    (pc = "returned" /\ result.exit = ExitSuccess) =>
        /\ Stat(fs, opts.archive).kind = "file"
        /\ AddTarSuffix(opts.archive, opts.suffix) # opts.archive
           => Stat(fs, AddTarSuffix(opts.archive, opts.suffix)).kind = "none"


\* ----------------------------------------------------------- SpecExclude

\* strings.TrimSpace, on lines with spaces.
RECURSIVE TrimSpace(_)
TrimSpace(s) ==
    IF Len(s) > 0 /\ s[1] = " " THEN TrimSpace(Tail(s))
    ELSE IF Len(s) > 0 /\ s[Len(s)] = " " THEN TrimSpace(SubSeq(s, 1, Len(s) - 1))
    ELSE s

\* The patterns of a file's lines: each line trimmed, blank lines and lines
\* that begin with # left out.
RECURSIVE filePatterns(_)
filePatterns(lines) ==
    IF Len(lines) = 0 THEN << >>
    ELSE Only({ (IF line = EmptyStr \/ HasPrefix(line, <<"#">>) THEN << >> ELSE <<line>>)
                \o filePatterns(Tail(lines))
              : line \in {TrimSpace(Head(lines))} })

\* loadExcludePatterns(inline, files): [err, out]. The inline patterns, then
\* the patterns of each file in turn; a file that cannot be read is the only
\* error.
RECURSIVE loadExcludePatterns(_, _)
loadExcludePatterns(inline, files) ==
    IF Len(files) = 0 THEN [err |-> "nil", out |-> inline]
    ELSE IF ~Head(files).readable THEN [err |-> "io", out |-> << >>]
    ELSE loadExcludePatterns(inline \o filePatterns(Head(files).lines), Tail(files))

\* The syntax of path.Match: a "[" opens a class of one or more characters
\* that a "]" closes; a pattern with a class left open or empty is malformed.
RECURSIVE ValidGlob(_)
ValidGlob(p) ==
    IF Len(p) = 0 THEN TRUE
    ELSE IF p[1] # "[" THEN ValidGlob(Tail(p))
    ELSE IF Len(p) < 3 \/ p[2] = "]" \/ IndexFrom(p, "]", 3) > Len(p) THEN FALSE
    ELSE ValidGlob(SubSeq(p, IndexFrom(p, "]", 3) + 1, Len(p)))

\* The most lines in an exclude file.
MaxLines == 2

\* Patterns, well-formed and not, and the lines of a file: patterns, a blank
\* line, a comment, a pattern between spaces.
ExcludePatterns == {<<"a">>, <<"*">>, <<"[">>, <<"[", "a", "]">>}
ExcludeLines == ExcludePatterns \cup {EmptyStr, <<"#", "[">>, <<" ", "[", " ">>}
ExcludeFiles == [readable : BOOLEAN, lines : SeqsUpTo(ExcludeLines, MaxLines)]

InitExclude ==
    /\ call \in [kind : {"load"},
                 inline : {<< >>} \cup {<<q>> : q \in ExcludePatterns},
                 files : {<< >>} \cup {<<f>> : f \in ExcludeFiles}]
    /\ ret = NoRet
    /\ IdleRun

\* runCreate loads the exclude patterns.
LoadExcludesCall ==
    /\ ret = NoRet
    /\ \E r \in {loadExcludePatterns(call.inline, call.files)} :
           ret' = [kind |-> "load", err |-> r.err, out |-> r.out]
    /\ UNCHANGED <<call, runVars, up, objects, stderr, ctx, cr>>

NextExclude == LoadExcludesCall

SpecExclude == InitExclude /\ [][NextExclude]_vars

\* A malformed pattern is given inline, or on a line of a file that is read.
MalformedGiven ==
    \/ \E i \in 1..Len(call.inline) : ~ValidGlob(call.inline[i])
    \/ \E i \in 1..Len(call.files) :
           /\ \A j \in 1..i : call.files[j].readable
           /\ \E k \in 1..Len(filePatterns(call.files[i].lines)) :
                  ~ValidGlob(filePatterns(call.files[i].lines)[k])

\* C25 as stated: loading patterns of which one is malformed, inline or in a
\* file, returns the error "invalid exclude pattern" and no patterns, so that
\* Create does not go on to match against it.
C25_InvalidPatternRejected ==
    (ret.kind = "load" /\ MalformedGiven) =>
        /\ ret.err = "invalid exclude pattern"
        /\ ret.out = << >>

\* Loading never fails for a pattern: when every file can be read the
\* patterns come back as given, the malformed ones among them.
MalformedLoaded ==
    (ret.kind = "load" /\ MalformedGiven
     /\ \A i \in 1..Len(call.files) : call.files[i].readable) =>
        /\ ret.err = "nil"
        /\ \E i \in 1..Len(ret.out) : ~ValidGlob(ret.out[i])

\* ------------------------------------------------------------ SpecStream

\* The tar stream of a sequence of entries: for each entry a header block that
\* declares the size of the body, then the bytes of the body.
HeaderBlock(e) == [kind |-> "hdr", hdr |-> [e EXCEPT !.data = << >>], size |-> Len(e.data)]
BodyBlocks(e) == [i \in 1..Len(e.data) |-> [kind |-> "byte", hdr |-> NoRet, size |-> e.data[i]]]

RECURSIVE TarStream(_)
TarStream(entries) ==
    IF Len(entries) = 0 THEN << >>
    ELSE <<HeaderBlock(Head(entries))>> \o BodyBlocks(Head(entries)) \o TarStream(Tail(entries))

\* The bytes of the blocks at..at+n-1 of a stream (as far as it goes).
BytesAt(tokens, at, n) ==
    [i \in 1..(IF at + n - 1 <= Len(tokens) THEN n ELSE Len(tokens) - at + 1)
        |-> tokens[at + i - 1].size]

\* tr.Next() that reads the next header where the closure stopped reading.
trNextNoSkip(tokens, off, left) ==
    IF off > Len(tokens)
    THEN [eof |-> TRUE, err |-> "nil", hdr |-> NoRet, off |-> off, left |-> 0]
    ELSE IF tokens[off].kind # "hdr"
    THEN [eof |-> FALSE, err |-> "corrupt", hdr |-> NoRet, off |-> off, left |-> 0]
    ELSE [eof |-> FALSE, err |-> "nil",
          hdr |-> [tokens[off].hdr EXCEPT !.data = BytesAt(tokens, off + 1, tokens[off].size)],
          off |-> off + 1, left |-> tokens[off].size]

\* tr.Next(): the unread rest of the current body is skipped, then the block
\* there is read as a header: [eof, err, hdr, off, left], off the position
\* after the header and left the size it declares.
trNext(tokens, off, left) ==
    LET at == off + left IN
    IF at > Len(tokens)
    THEN [eof |-> TRUE, err |-> "nil", hdr |-> NoRet, off |-> at, left |-> 0]
    ELSE IF tokens[at].kind # "hdr"
    THEN [eof |-> FALSE, err |-> "corrupt", hdr |-> NoRet, off |-> at, left |-> 0]
    ELSE [eof |-> FALSE, err |-> "nil",
          hdr |-> [tokens[at].hdr EXCEPT !.data = BytesAt(tokens, at + 1, tokens[at].size)],
          off |-> at + 1, left |-> tokens[at].size]

\* The numbers of body bytes the closure of the run can have read from tr when
\* it returns r under the fault: all of the body where it copies the body, a
\* part of it where the copy fails, none where it does not read.
bodyReads(o, hdr, r, fault) ==
    LET all == {Len(hdr.data)}
        part == {Len(Partial(hdr.data))}
        copied == IF fault = "copy" THEN part ELSE all
        s == stripPathComponents(hdr.name, o.strip)
    IN  IF o.mode = "t" THEN copied
        ELSE IF shouldSkipMember(o, hdr.name) \/ ~s.ok THEN copied
        ELSE IF o.toStdout THEN copied
        ELSE IF extractTarget(o).kind = "s3"
        THEN IF TrimPrefix(s.name, <<Dot, Slash>>) = EmptyStr THEN copied
             ELSE IF hdr.typeflag = "reg" THEN (IF r.err = "nil" THEN all ELSE part \cup {0})
             ELSE IF hdr.typeflag = "dir" THEN copied
             ELSE {0}
        ELSE IF hdr.typeflag = "reg" THEN (IF r.err = "nil" THEN all ELSE part \cup {0})
        ELSE IF hdr.typeflag \in {"dir", "symlink", "link"} THEN {0}
        ELSE IF r.err = "nil" THEN all ELSE part \cup {0}

\* Files and directories with and without a body, a symlink, a device with a
\* body, and a name that is empty in the object store.
StreamEntries == {
    OwnedHdr(<<"a">>, "reg", EmptyStr, Perm644, <<1, 2>>, EmptyStr),
    OwnedHdr(<<"d">>, "dir", EmptyStr, Perm755, << >>, EmptyStr),
    OwnedHdr(<<"d", Slash, "a">>, "reg", EmptyStr, Perm600, <<3>>, EmptyStr),
    OwnedHdr(<<"l">>, "symlink", <<"a">>, Perm777, << >>, EmptyStr),
    OwnedHdr(<<"f">>, "other", EmptyStr, Perm644, <<6, 7>>, EmptyStr)}

\* List, extract to standard output, to a directory and to a bucket, of
\* everything or of one member.
StreamOpts ==
    {[mode |-> k[1], members |-> m, wildcards |-> FALSE, strip |-> n,
      toStdout |-> k[2], verbose |-> FALSE, chdir |-> k[3],
      isRoot |-> FALSE, sameOwner |-> "unset", samePermissions |-> "unset",
      numericOwner |-> FALSE]
     : k \in {<<"t", FALSE, BaseDir>>, <<"x", TRUE, BaseDir>>, <<"x", FALSE, BaseDir>>,
              <<"x", FALSE, S3Scheme \o <<"b">> >>},
       m \in {<< >>, << <<"d", Slash, "a">> >>},
       n \in 0..MaxRunStrip}

InitStream ==
    /\ opts \in StreamOpts
    /\ archive \in SeqsUpTo(StreamEntries, MaxEntries)
    /\ pos = 1
    /\ fs = InitFs
    /\ stdout = << >>
    /\ warnings = 0
    /\ result = NoResult
    /\ pc = "call"
    /\ done = << >>
    /\ up = NoRet
    /\ objects = NoObjects
    /\ stderr = << >>
    /\ ctx = "live"
    /\ cr = NoRet
    /\ call = [kind |-> "stream", tokens |-> TarStream(archive)]
    /\ ret = [kind |-> "reader", off |-> 1, left |-> 0, seen |-> << >>]

\* One turn of scanArchive's loop on the stream: tr.Next() and, for a header,
\* the closure, which changes what the run changes and reads from tr.
ScanStream ==
    /\ pc = "scan"
    /\ \E n \in {trNext(call.tokens, ret.off, ret.left)} :
        IF n.eof
        THEN /\ result' = classifyResult("nil", warnings)
             /\ pc' = "returned"
             /\ ret' = [ret EXCEPT !.off = n.off, !.left = 0]
             /\ UNCHANGED <<fs, objects, stderr, stdout, warnings, done, pos>>
        ELSE IF n.err # "nil"
        THEN /\ result' = classifyResult(n.err, warnings)
             /\ pc' = "returned"
             /\ ret' = [ret EXCEPT !.off = n.off, !.left = 0]
             /\ UNCHANGED <<fs, objects, stderr, stdout, warnings, done, pos>>
        ELSE \E fault \in Faults :
             \E r \in {entryStep(opts, n.hdr, fs, objects, stderr, stdout, fault)} :
             \E k \in bodyReads(opts, n.hdr, r, fault) :
                /\ fs' = r.fs
                /\ objects' = r.objects
                /\ stderr' = r.stderr
                /\ stdout' = r.stdout
                /\ warnings' = warnings + r.warnings
                /\ done' = Append(done, [hdr |-> n.hdr, what |-> r.what, err |-> r.err,
                                         before |-> fs, after |-> r.fs, w |-> r.warnings,
                                         objBefore |-> objects, errBefore |-> stderr,
                                         meta |-> fault = "xattr",
                                         ctx |-> ctx])
                /\ pos' = pos + 1
                /\ ret' = [ret EXCEPT !.off = n.off + k, !.left = n.left - k,
                                      !.seen = Append(ret.seen, n.hdr)]
                /\ IF r.err # "nil"
                   THEN /\ result' = classifyResult(r.err, warnings + r.warnings)
                        /\ pc' = "returned"
                   ELSE UNCHANGED <<result, pc>>
    /\ UNCHANGED <<opts, archive, call, up, ctx, cr>>

NextStream == RunStart \/ ScanReadError \/ ScanStream

SpecStream == InitStream /\ [][NextStream]_vars

\* The position in the stream of the header of entry k (of the end of the
\* stream for k past the last entry).
RECURSIVE HeaderAt(_, _)
HeaderAt(entries, k) ==
    IF k <= 1 THEN 1
    ELSE HeaderAt(entries, k - 1) + 1 + Len(entries[k - 1].data)

MaxChain == 3

\* Entries that are each accepted on their own: a symlink to the target
\* directory itself, a symlink named through it, an entry named through that
\* one, and a plain file. No link target is absolute and none escapes when
\* joined to the directory of its name.
ChainEntries == {
    Hdr(<<"l">>, "symlink", <<Dot>>, Perm777, << >>),
    Hdr(<<"l", Slash, "m">>, "symlink", <<Dot, Dot, Slash, "e">>, Perm777, << >>),
    Hdr(<<"m", Slash, "p">>, "reg", EmptyStr, Perm600, <<9>>),
    Hdr(<<"a">>, "reg", EmptyStr, Perm644, <<1, 2>>)}

InitChain ==
    /\ opts \in {o \in ExtractOpts : o.strip = 0}
    /\ archive \in SeqsUpTo(ChainEntries, MaxChain)
    /\ pos = 1
    /\ fs = InitFs
    /\ stdout = << >>
    /\ warnings = 0
    /\ result = NoResult
    /\ pc = "call"
    /\ done = << >>
    /\ up = NoRet
    /\ objects = NoObjects
    /\ stderr = << >>
    /\ ctx = "live"
    /\ cr = NoRet
    /\ call = NoRet
    /\ ret = NoRet

NextChain == RunStart \/ ScanEOF \/ ScanReadError \/ ScanEntry

SpecChain == InitChain /\ [][NextChain]_vars

\* Physical path p is base or below it.
InBase(base, p) == p = base \/ HasPrefix(p, base \o <<Slash>>)

\* C27: whatever the entries and their order, every node outside the base
\* directory is after each entry what it was before the run: nothing is
\* created, written, re-moded or removed there.
C27_NoEffectOutsideBase ==
    \A p \in (DOMAIN fs) \cup (DOMAIN InitFs) :
        ~InBase(BaseDir, p) => NodeAt(fs, p) = NodeAt(InitFs, p)

\* The same of the runs without same-permissions, in which no mode is set
\* after an entry.
WrittenThroughChain ==
    opts.samePermissions = "unset" => C27_NoEffectOutsideBase

\* --------------------------------------------------------- SpecLinkStrip

\* Files one and two directories deep, and hard links to them by their names
\* in the archive.
LinkEntries == {
    Hdr(<<"d", Slash, "a">>, "reg", EmptyStr, Perm644, <<1>>),
    Hdr(<<"d", Slash, "d", Slash, "a">>, "reg", EmptyStr, Perm644, <<2>>),
    Hdr(<<"d", Slash, "h">>, "link", <<"d", Slash, "a">>, Perm644, << >>),
    Hdr(<<"d", Slash, "d", Slash, "h">>, "link", <<"d", Slash, "d", Slash, "a">>, Perm644, << >>),
    Hdr(<<"a">>, "reg", EmptyStr, Perm644, <<3>>),
    Hdr(<<"h">>, "link", <<"a">>, Perm644, << >>)}

InitLinkStrip ==
    /\ opts \in ExtractOpts
    /\ archive \in SeqsUpTo(LinkEntries, MaxEntries)
    /\ pos = 1
    /\ fs = InitFs
    /\ stdout = << >>
    /\ warnings = 0
    /\ result = NoResult
    /\ pc = "call"
    /\ done = << >>
    /\ up = NoRet
    /\ objects = NoObjects
    /\ stderr = << >>
    /\ ctx = "live"
    /\ cr = NoRet
    /\ call = NoRet
    /\ ret = NoRet

NextLinkStrip == RunStart \/ ScanEOF \/ ScanReadError \/ ScanEntry

SpecLinkStrip == InitLinkStrip /\ [][NextLinkStrip]_vars

\* The path an entry name is extracted at under the run's strip count.
StrippedPath(name) == safeJoin(opts.chdir, stripPathComponents(name, opts.strip).name).path

\* Entry i is a hard link that reaches extraction, to the name of the regular
\* file that entry j, just before it, extracted.
LinkAfterTarget(j, i) ==
    /\ i = j + 1
    /\ done[j].hdr.typeflag = "reg" /\ Dispatched(done[j]) /\ done[j].err = "nil"
    /\ done[i].hdr.typeflag = "link" /\ Dispatched(done[i])
    /\ done[i].hdr.linkname = done[j].hdr.name

\* What the environment not failing makes of entry i.
Unfailed(i) ==
    entryStep(opts, done[i].hdr, done[i].before, done[i].objBefore, done[i].errBefore,
              << >>, "none")

\* The link of entry i is made, as another name of the file entry j made.
LinkedTo(j, i) ==
    \E r \in {Unfailed(i)} :
        /\ r.err = "nil"
        /\ NodeAt(r.fs, StrippedPath(done[i].hdr.name)).kind = "file"
        /\ NodeAt(r.fs, StrippedPath(done[i].hdr.name)).ino
             = NodeAt(r.fs, StrippedPath(done[j].hdr.name)).ino

\* C29: with a strip count above zero, a hard link whose target entry was
\* extracted just before it is made, and is another name of the file at the
\* target's stripped path.
C29_LinkFollowsStrip ==
    \A j, i \in 1..Len(done) :
        (opts.strip > 0 /\ LinkAfterTarget(j, i)) => LinkedTo(j, i)

\* With a strip count of zero the link is another name of its target.
LinkUnstripped ==
    \A j, i \in 1..Len(done) :
        (opts.strip = 0 /\ LinkAfterTarget(j, i)) => LinkedTo(j, i)

\* With a strip count above zero the link is made to the file at the
\* unstripped name, if there is one, and fails otherwise.
LinkToUnstrippedName ==
    \A j, i \in 1..Len(done) :
        (opts.strip > 0 /\ LinkAfterTarget(j, i)) =>
            \E r \in {Unfailed(i)} :
                LET old == safeJoin(opts.chdir, done[i].hdr.linkname).path
                IN  IF NodeAt(done[i].before, old).kind = "file"
                    THEN /\ r.err = "nil"
                         /\ NodeAt(r.fs, StrippedPath(done[i].hdr.name)).ino
                              = NodeAt(r.fs, old).ino
                    ELSE r.err # "nil"

\* ------------------------------------------------------ SpecLegacyUpload

\* S3.Upload of the first tool: a goroutine runs Compress into the write end
\* of a pipe and sends its error on errChan; Upload runs the uploader on the
\* read end and then receives from errChan. Nothing closes the read end.
\* up.chan is how errChan is made: "buffered" (make(chan error, 1), closed
\* after the send) or "unbuffered" (and then Upload returns the uploader's
\* error without receiving).
\* pc is Upload's position: "upload" (inside the uploader), "recv", "returned".
\* up.cpc is the goroutine's: "run", "inWrite", "close", "send", "closeCh",
\* "done".

LegacyOthers ==
    UNCHANGED <<call, ret, opts, archive, pos, fs, stdout, warnings, done, objects, stderr, ctx, cr>>

InitLegacyUpload ==
    /\ up \in [chan : {"buffered", "unbuffered"}, todo : 0..MaxChunks,
               pipe : {"empty"}, wClosed : {FALSE}, got : {0},
               errCh : {<< >>}, chClosed : {FALSE}, cpc : {"run"},
               cErr : {"nil"}, upErr : {"running"}, flushed : {FALSE}]
    /\ pc = "upload"
    /\ result = NoResult
    /\ opts = NoRet
    /\ archive = << >>
    /\ pos = 1
    /\ fs = << >>
    /\ stdout = << >>
    /\ warnings = 0
    /\ done = << >>
    /\ objects = NoObjects
    /\ stderr = << >>
    /\ ctx = "live"
    /\ cr = NoRet
    /\ call = NoRet
    /\ ret = NoRet

\* Compress: a file's blocks go through tar and gzip into the pipe; with no
\* file left, or after a file's error, the writers are closed, which writes
\* what gzip holds.
CompressWrite ==
    /\ up.cpc = "run"
    /\ up.pipe = "empty"
    /\ \/ /\ up.todo > 0
          /\ up' = [up EXCEPT !.todo = @ - 1, !.pipe = "full", !.cpc = "inWrite"]
       \/ /\ up.todo > 0
          /\ up' = [up EXCEPT !.todo = 0, !.cErr = "io", !.flushed = TRUE,
                              !.pipe = "full", !.cpc = "inWrite"]
       \/ /\ up.todo = 0
          /\ ~up.flushed
          /\ up' = [up EXCEPT !.flushed = TRUE, !.pipe = "full", !.cpc = "inWrite"]
    /\ UNCHANGED <<pc, result>>
    /\ LegacyOthers

\* PipeWriter.Write returns when the reader has taken the bytes.
CompressWriteReturns ==
    /\ up.cpc = "inWrite"
    /\ up.pipe = "empty"
    /\ up' = [up EXCEPT !.cpc = IF up.flushed THEN "close" ELSE "run"]
    /\ UNCHANGED <<pc, result>>
    /\ LegacyOthers

\* Compress ends: buf.Close(), the write end of the pipe.
CompressClose ==
    /\ up.cpc = "close"
    /\ up' = [up EXCEPT !.wClosed = TRUE, !.cpc = "send"]
    /\ UNCHANGED <<pc, result>>
    /\ LegacyOthers

\* errChan <- Compress(...) on the buffered channel, then close(errChan).
CompressSend ==
    /\ up.chan = "buffered"
    /\ \/ /\ up.cpc = "send"
          /\ up' = [up EXCEPT !.errCh = Append(@, up.cErr), !.cpc = "closeCh"]
       \/ /\ up.cpc = "closeCh"
          /\ up' = [up EXCEPT !.chClosed = TRUE, !.cpc = "done"]
    /\ UNCHANGED <<pc, result>>
    /\ LegacyOthers

\* errChan <- Compress(...) on the unbuffered channel meets Upload's
\* `return <-errChan`.
CompressHandOver ==
    /\ up.chan = "unbuffered"
    /\ up.cpc = "send"
    /\ pc = "recv"
    /\ up' = [up EXCEPT !.cpc = "done"]
    /\ result' = classifyResult(up.cErr, 0)
    /\ pc' = "returned"
    /\ LegacyOthers

\* Upload after the uploader returned err: the buffered version receives from
\* errChan whatever err is; the unbuffered one returns err if it is not nil.
AfterUploader(u, err) ==
    IF u.chan = "unbuffered" /\ err # "nil"
    THEN [pc |-> "returned", result |-> classifyResult(err, 0)]
    ELSE [pc |-> "recv", result |-> NoResult]

\* The uploader reads what is in the pipe.
UploaderRead ==
    /\ pc = "upload"
    /\ up.pipe = "full"
    /\ up' = [up EXCEPT !.pipe = "empty", !.got = @ + 1]
    /\ UNCHANGED <<pc, result>>
    /\ LegacyOthers

\* The uploader reads the end of the stream and returns.
UploaderEOF ==
    /\ pc = "upload"
    /\ up.pipe = "empty"
    /\ up.wClosed
    /\ \E e \in {"nil", "s3"} :
         /\ up' = [up EXCEPT !.upErr = e]
         /\ pc' = AfterUploader(up, e).pc
         /\ result' = AfterUploader(up, e).result
    /\ LegacyOthers

\* The uploader fails before the end of the stream.
UploaderFail ==
    /\ pc = "upload"
    /\ ~(up.pipe = "empty" /\ up.wClosed)
    /\ up' = [up EXCEPT !.upErr = "early"]
    /\ pc' = AfterUploader(up, "early").pc
    /\ result' = AfterUploader(up, "early").result
    /\ LegacyOthers

\* `if tgzerr := <-errChan; tgzerr != nil { return tgzerr }; return err`
UploadRecv ==
    /\ pc = "recv"
    /\ up.chan = "buffered"
    /\ \E r \in {ChanRecv(up)} :
         /\ r.ready
         /\ up' = [up EXCEPT !.errCh = IF Len(@) > 0 THEN Tail(@) ELSE @]
         /\ result' = classifyResult(IF r.err # "nil" THEN r.err ELSE up.upErr, 0)
    /\ pc' = "returned"
    /\ LegacyOthers

CompressTask ==
    CompressWrite \/ CompressWriteReturns \/ CompressClose \/ CompressSend \/ CompressHandOver
UploadCall == UploaderRead \/ UploaderEOF \/ UploaderFail \/ UploadRecv

NextLegacyUpload == CompressTask \/ UploadCall

\* Both goroutines are scheduled again and again while they can run.
SpecLegacyUpload ==
    InitLegacyUpload /\ [][NextLegacyUpload]_vars
    /\ WF_vars(CompressTask) /\ WF_vars(UploadCall)

\* C30: in every fair interleaving Upload returns and the compressor
\* goroutine ends.
C30_UploadReturns ==
    /\ <>(pc = "returned")
    /\ <>(up.cpc = "done")

\* When the uploader reads to the end of the stream and returns no error,
\* Upload returns and the goroutine ends.
DrainedUploadReturns ==
    (<>(up.upErr \in {"early", "s3"})) \/ C30_UploadReturns

====
